---- MODULE Spec2Model ----
(***************************************************************************)
(* Verification model of the DeepWiki-to-Markdown browser extension.       *)
(*                                                                         *)
(*   SpecFlow   content.js  convertFlowchartSvgToMermaidText               *)
(*   SpecBatch  background.js batch job orchestration + tabNavigation      *)
(*   SpecZip    background.js page storage and ZIP assembly                *)
(*   SpecPages  content.js  extractAllPages handler                        *)
(*   SpecConv   content.js  processNode / convertToMarkdown handler        *)
(*   SpecSkip   content.js  processNode on hidden and skipped elements      *)
(*   SpecTable  content.js  processNode, case TABLE                         *)
(*   SpecLink   content.js  processNode, case A                             *)
(*   SpecLinks  content.js  connector resolution and the flowchart text     *)
(*   SpecClass  content.js  convertClassDiagramSvgToMermaidText             *)
(*   SpecSeq    content.js  convertSequenceDiagramSvgToMermaidText          *)
(*   SpecUrl    utils/urlUtils.js isSupportedWikiUrl                        *)
(*   SpecState  content.js  convertStateDiagramSvgToMermaidText             *)
(*   SpecNotes  content.js  the notes of a class diagram                    *)
(*   SpecJobs   background.js two successive jobs on one tab                *)
(*   SpecPopup  popup.js    the popup-driven batch flow                     *)
(*                                                                         *)
(* Strings are sequences of atoms (one atom = one character, or one fixed  *)
(* literal chunk such as "flowchart").                                     *)
(***************************************************************************)
EXTENDS Integers, Sequences, FiniteSets, TLC

VARIABLES
  \* ---- flowchart recovery (content.js 204-471) ----
  svg,            \* the rendered diagram: node groups, cluster groups, link paths
  fpc,            \* position inside convertFlowchartSvgToMermaidText
  nodes,          \* collected nodes, in insertion order
  clusters,       \* collected clusters, in insertion order
  parentMap,      \* child svgId -> parent svgId (NoId when absent)
  edges,          \* resolved edges with their owning cluster
  walk,           \* the state of the current link's ancestor walk
  mermaidCode,    \* the text the flowchart recovery returns
  \* ---- class diagram recovery (content.js 473-917) ----
  classSvg,       \* the rendered class diagram: class groups and relation paths
  classRec,       \* convertClassDiagramSvgToMermaidText: position, classData, mermaidLines
  \* ---- sequence diagram recovery (content.js 924-1212) ----
  seqSvg,         \* the rendered sequence diagram: actors, message texts, message lines
  seqRec,         \* convertSequenceDiagramSvgToMermaidText: position and locals
  \* ---- batch jobs (background.js, utils/tabNavigation.js) ----
  batchJobs,      \* the registry: the job registered for the tab, or NoJob
  job,            \* per job: its fields, the position of its async function, its history
  tab,            \* the browser tab: open, committed url, pending url, content script ready
  \* ---- extractAllPages (content.js 71-185) ----
  sidebar,        \* the page: its location and the links the selectors visit, in order
  extract,        \* the handler: position, link at hand, the seen map, the response
  \* ---- convertToMarkdown (content.js 25-70, 1413-1805) ----
  dom,            \* the child nodes of the content container
  responses,      \* the responses sent to the convertToMarkdown requests so far
  \* ---- isSupportedWikiUrl (utils/urlUtils.js) ----
  urlCheck,       \* one call: the argument, the position, the returned value
  \* ---- state diagram recovery (content.js 1215-1411) ----
  stateSvg,       \* the rendered state diagram: states, pseudostates, labels, paths
  stateRec,       \* convertStateDiagramSvgToMermaidText: position and locals
  \* ---- popup-driven batch flow (popup.js 149-514) ----
  popup,          \* the popup's shared variables and its two buttons
  run             \* per click on the batch button: the position of its handler, its locals

flowVars == <<svg, fpc, nodes, clusters, parentMap, edges, walk, mermaidCode>>

batchVars == <<batchJobs, job, tab>>

pageVars == <<sidebar, extract>>

convVars == <<dom, responses>>

classVars == <<classSvg, classRec>>

seqVars == <<seqSvg, seqRec>>

urlVars == <<urlCheck>>

stateVars == <<stateSvg, stateRec>>

popupVars == <<popup, run>>

notFlowVars == <<batchVars, pageVars, convVars, classVars, seqVars, urlVars, stateVars, popupVars>>
notBatchVars == <<flowVars, pageVars, convVars, classVars, seqVars, urlVars, stateVars, popupVars>>
notPageVars == <<flowVars, batchVars, convVars, classVars, seqVars, urlVars, stateVars, popupVars>>
notConvVars == <<flowVars, batchVars, pageVars, classVars, seqVars, urlVars, stateVars, popupVars>>
notClassVars == <<flowVars, batchVars, pageVars, convVars, seqVars, urlVars, stateVars, popupVars>>
notSeqVars == <<flowVars, batchVars, pageVars, convVars, classVars, urlVars, stateVars, popupVars>>
notUrlVars == <<flowVars, batchVars, pageVars, convVars, classVars, seqVars, stateVars, popupVars>>
notStateVars == <<flowVars, batchVars, pageVars, convVars, classVars, seqVars, urlVars, popupVars>>
notPopupVars == <<flowVars, batchVars, pageVars, convVars, classVars, seqVars, urlVars, stateVars>>

vars == <<flowVars, batchVars, pageVars, convVars, classVars, seqVars, urlVars, stateVars, popupVars>>

(***************************************************************************)
(* Bounds                                                                  *)
(***************************************************************************)
MaxNodes == 2
MaxClusters == 3
MaxLinks == 1
MaxWalk == 4
MaxPages == 2
MaxJobs == 1
MaxZipPages == 3
MaxSidebarLinks == 2
MaxKids == 2
MaxTop == 2
MaxRequests == 2
MaxRelations == 1
MaxMessages == 2
MaxTableRows == 2
MaxStates == 2
MaxTransitions == 1
MaxNotes == 2
MaxClicks == 2
MaxPopupPages == 2

(***************************************************************************)
(* The state of a component that is not running                            *)
(***************************************************************************)
FlowIdle ==
  /\ svg = [nodeEls |-> <<>>, clusterEls |-> <<>>, linkEls |-> <<>>]
  /\ fpc = "idle"
  /\ nodes = <<>>
  /\ clusters = <<>>
  /\ parentMap = <<>>
  /\ edges = <<>>
  /\ walk = [phase |-> "next", idx |-> 1, source |-> <<>>, target |-> <<>>,
             sourceAncestors |-> <<>>, lca |-> <<>>]
  /\ mermaidCode = <<>>

NoJob == 0
NoUrl == <<>>

JobIds == 1..MaxJobs

\* background.js 39-55 createBatchJob, before the job exists
IdleJob ==
  [pc |-> "idle", cancelRequested |-> FALSE, cancelled |-> FALSE, completed |-> FALSE,
   processedCount |-> 0, errorCount |-> 0, total |-> 0, allPages |-> <<>>,
   convertedPages |-> <<>>, lastMessage |-> "", lastStatusType |-> "info",
   currentPageUrl |-> NoUrl,
   \* locals of processJobPages and of the navigation helpers
   idx |-> 0, lastVisitedUrl |-> NoUrl, usedFileTitles |-> {}, phase |-> "page",
   target |-> NoUrl, seenUrl |-> NoUrl, polled |-> FALSE, zip |-> <<>>,
   \* what the job has sent so far
   lastUpdate |-> [message |-> "", completed |-> FALSE, running |-> FALSE,
                   cancelled |-> FALSE, cancelRequested |-> FALSE],
   attempts |-> <<>>, sends |-> <<>>, readySeen |-> {}, timedOut |-> {},
   cancelAcked |-> FALSE, downloads |-> 0, downloadsAfterCancel |-> 0,
   \* the tab's url when the job started, the targets of its calls of
   \* safelyReturnToUrl and of the navigations these started, and their failure
   startUrl |-> NoUrl, returns |-> <<>>, returnNavs |-> <<>>, returnFailed |-> FALSE]

\* a finished job nothing refers to any more
CollectedJob == [IdleJob EXCEPT !.pc = "collected"]

BatchIdle ==
  /\ batchJobs = NoJob
  /\ job = [j \in JobIds |-> IdleJob]
  /\ tab = [open |-> FALSE, url |-> NoUrl, pending |-> NoUrl, ready |-> FALSE]

PagesIdle ==
  /\ sidebar = [location |-> NoUrl, links |-> <<>>]
  /\ extract = [pc |-> "idle", i |-> 1, seen |-> <<>>, pages |-> <<>>]

ConvIdle ==
  /\ dom = <<>>
  /\ responses = <<>>

ClassIdle ==
  /\ classSvg = [classEls |-> <<>>, pathEls |-> <<>>, groups |-> <<>>]
  /\ classRec = [pc |-> "idle", classData |-> <<>>, index |-> 1, mermaidLines |-> <<>>,
                 result |-> <<>>, notes |-> <<>>]

SeqIdle ==
  /\ seqSvg = [actors |-> <<>>, texts |-> <<>>, lines |-> <<>>, paths |-> <<>>]
  /\ seqRec = [pc |-> "idle", uniqueParticipants |-> <<>>, messageTexts |-> <<>>,
               messageLines |-> <<>>, messages |-> <<>>, i |-> 1, result |-> <<>>]

UrlIdle == urlCheck = [url |-> [type |-> "undefined"], pc |-> "idle", result |-> FALSE]

StateIdle ==
  /\ stateSvg = [states |-> <<>>, start |-> <<>>, ends |-> <<>>, labels |-> <<>>, paths |-> <<>>]
  /\ stateRec = [pc |-> "idle", nodes |-> <<>>, labels |-> <<>>, transitions |-> <<>>,
                 i |-> 1, result |-> <<>>]

RunIds == 1..MaxClicks

\* popup.js 315-318, 344-345: a click handler that has not been started
IdleRun ==
  [pc |-> "idle", list |-> 0, n |-> 0, idx |-> 0, processedCount |-> 0, errorCount |-> 0,
   zipped |-> <<>>,
   \* Cancel was clicked while this handler was inside processAllPages
   cancelClicked |-> FALSE]

\* popup.js 149-160: the popup as loaded: isCancelled false, allPages and
\* convertedPages empty, the batch button enabled and the cancel button hidden
PopupLoaded ==
  [isCancelled |-> FALSE, batchDisabled |-> FALSE, cancelShown |-> FALSE,
   allPages |-> [by |-> 0, n |-> 0], convertedPages |-> <<>>]

PopupIdle ==
  /\ popup = PopupLoaded
  /\ run = [r \in RunIds |-> IdleRun]

DiagramsIdle == ClassIdle /\ SeqIdle

(***************************************************************************)
(* String helpers (strings are sequences of atoms)                         *)
(***************************************************************************)
Digits == {"0", "1", "2", "3", "4", "5", "6", "7", "8", "9"}

Abs(n) == IF n < 0 THEN -n ELSE n

StartsWith(s, p) == Len(s) >= Len(p) /\ SubSeq(s, 1, Len(p)) = p

DropFirst(s, n) == SubSeq(s, n + 1, Len(s))

RECURSIVE TrailingDigits(_)
TrailingDigits(s) ==
  IF s = <<>> \/ s[Len(s)] \notin Digits THEN 0
  ELSE 1 + TrailingDigits(SubSeq(s, 1, Len(s) - 1))

IsAllDigits(s) == s # <<>> /\ TrailingDigits(s) = Len(s)

\* String.prototype.split(sep) for a one-atom separator
RECURSIVE SplitFrom(_, _, _, _)
SplitFrom(s, sep, i, cur) ==
  IF i > Len(s) THEN <<cur>>
  ELSE IF s[i] = sep THEN <<cur>> \o SplitFrom(s, sep, i + 1, <<>>)
  ELSE SplitFrom(s, sep, i + 1, Append(cur, s[i]))

Split(s, sep) == SplitFrom(s, sep, 1, <<>>)

\* Array.prototype.join(sep)
RECURSIVE Join(_, _)
Join(parts, sep) ==
  IF parts = <<>> THEN <<>>
  ELSE IF Len(parts) = 1 THEN parts[1]
  ELSE parts[1] \o <<sep>> \o Join(Tail(parts), sep)

Whitespace == {" ", "\n", "\t"}

RECURSIVE TrimStart(_, _)
TrimStart(s, set) ==
  IF s # <<>> /\ Head(s) \in set THEN TrimStart(Tail(s), set) ELSE s

RECURSIVE TrimEnd(_, _)
TrimEnd(s, set) ==
  IF s # <<>> /\ s[Len(s)] \in set THEN TrimEnd(SubSeq(s, 1, Len(s) - 1), set) ELSE s

\* String.prototype.trim
Trim(s) == TrimEnd(TrimStart(s, Whitespace), Whitespace)

\* replace every run of atoms of `set` by one atom `by`
RECURSIVE ReplaceRuns(_, _, _)
ReplaceRuns(s, set, by) ==
  IF s = <<>> THEN <<>>
  ELSE IF Head(s) \in set
       THEN <<by>> \o ReplaceRuns(TrimStart(s, set), set, by)
       ELSE <<Head(s)>> \o ReplaceRuns(Tail(s), set, by)

\* replace every atom of `set` by `by`
ReplaceEach(s, set, by) == [i \in 1..Len(s) |-> IF s[i] \in set THEN by ELSE s[i]]

\* the code fence of Markdown, three backquotes, and the opening fence of a diagram
Fence == "<fence>"
MermaidFence == "<fence>mermaid"

(***************************************************************************)
(* Flowchart recovery: geometry                                            *)
(***************************************************************************)
Box(l, t, r, b) == [left |-> l, top |-> t, right |-> r, bottom |-> b]

Width(bb) == bb.right - bb.left
Height(bb) == bb.bottom - bb.top

\* the rendered boxes the inputs are drawn from: nested, overlapping with
\* equal areas, identical, degenerate (a line) and empty (a point)
BigBox == Box(0, 0, 4, 4)
WideBox == Box(0, 1, 4, 2)
TallBox == Box(1, 0, 2, 4)
SmallBox == Box(1, 1, 2, 2)
LineBox == Box(1, 1, 1, 2)
FarBox == Box(3, 3, 4, 4)
PointBox == Box(3, 3, 3, 3)

ClusterBoxes == {BigBox, WideBox, TallBox, SmallBox, FarBox, PointBox}
NodeBoxes == {SmallBox, LineBox, FarBox, PointBox}

NoId == <<>>
RootId == <<"root">>

(***************************************************************************)
(* Flowchart recovery: identifiers of the rendered elements                *)
(***************************************************************************)
NodeNames == << <<"A">>, <<"B">>, <<"C">>, <<"D">> >>
DigitOf == <<"1", "2", "3", "4", "5">>

\* g.node ids as the renderer writes them: flowchart-<name>-<n>
NodeSvgId(i) == <<"flowchart", "-">> \o NodeNames[i] \o <<"-", DigitOf[i]>>
\* g.cluster ids
ClusterSvgId(j) == <<"subGraph", DigitOf[j]>>
\* path.flowchart-link ids: L_<source>_<target>_<k>
LinkId(s, t) == <<"L", "_">> \o NodeNames[s] \o <<"_">> \o NodeNames[t] \o <<"_", "0">>

\* the label of a node group: "Start" and "End" for A and B, a label with
\* blanks and a double quote for A1, the name otherwise
NodeLabel(nm) ==
  IF nm = <<"A">> THEN <<"Start">>
  ELSE IF nm = <<"B">> THEN <<"End">>
  ELSE IF nm = <<"A", "1">> THEN <<" ", "\"", "q", " ">>
  ELSE nm

NodeElSeqs ==
  UNION { { [i \in 1..n |-> [svgId |-> NodeSvgId(i), bbox |-> f[i],
                             text |-> NodeLabel(NodeNames[i])]] : f \in [1..n -> NodeBoxes] }
          : n \in 0..MaxNodes }

ClusterElSeqs ==
  UNION { { [j \in 1..n |-> [svgId |-> ClusterSvgId(j), bbox |-> f[j]]] : f \in [1..n -> ClusterBoxes] }
          : n \in 0..MaxClusters }

LinkElSeqs ==
  UNION { [1..n -> { LinkId(s, t) : s, t \in 1..2 }] : n \in 0..MaxLinks }

(***************************************************************************)
(* Flowchart recovery: steps 1 and 2, collecting nodes and clusters        *)
(***************************************************************************)
\* content.js 237: svgId.replace(/^flowchart-/, '').replace(/-\d+$/, '')
MermaidIdOf(svgId) ==
  LET a == IF StartsWith(svgId, <<"flowchart", "-">>) THEN DropFirst(svgId, 2) ELSE svgId
      k == TrailingDigits(a)
  IN  IF k >= 1 /\ Len(a) > k /\ a[Len(a) - k] = "-"
      THEN SubSeq(a, 1, Len(a) - k - 1)
      ELSE a

\* content.js 240 and 269: the element is kept when bbox.width > 0 || bbox.height > 0
IsRendered(bb) == Width(bb) > 0 \/ Height(bb) > 0

\* content.js 229, 234: textContent.trim().replace(/"/g, '#quot;')
NodeText(label) == ReplaceEach(Trim(label), {"\""}, "#quot;")

NodeRecord(el) ==
  [type |-> "node", mermaidId |-> MermaidIdOf(el.svgId), svgId |-> el.svgId, bbox |-> el.bbox,
   text |-> NodeText(el.text)]

\* content.js 270-277: the title is the svg id when the cluster has no label
ClusterRecord(el) ==
  [type |-> "cluster", mermaidId |-> el.svgId, svgId |-> el.svgId, bbox |-> el.bbox,
   text |-> el.svgId]

RECURSIVE CollectFrom(_, _)
CollectFrom(els, kind) ==
  IF els = <<>> THEN <<>>
  ELSE LET el == Head(els)
           rest == CollectFrom(Tail(els), kind)
       IN  IF el.svgId # <<>> /\ IsRendered(el.bbox)
           THEN <<IF kind = "node" THEN NodeRecord(el) ELSE ClusterRecord(el)>> \o rest
           ELSE rest

CollectNodes ==
  /\ fpc = "collectNodes"
  /\ nodes' = CollectFrom(svg.nodeEls, "node")
  /\ fpc' = "collectClusters"
  /\ UNCHANGED <<svg, clusters, parentMap, edges, walk, mermaidCode>>
  /\ UNCHANGED notFlowVars

CollectClusters ==
  /\ fpc = "collectClusters"
  /\ clusters' = CollectFrom(svg.clusterEls, "cluster")
  /\ fpc' = "hierarchy"
  /\ UNCHANGED <<svg, nodes, parentMap, edges, walk, mermaidCode>>
  /\ UNCHANGED notFlowVars

(***************************************************************************)
(* Flowchart recovery: step 3, the parent map                              *)
(***************************************************************************)
\* content.js 291-294
BoxInside(child, parent) ==
  /\ child.left >= parent.left
  /\ child.right <= parent.right
  /\ child.top >= parent.top
  /\ child.bottom <= parent.bottom

Area(bb) == Width(bb) * Height(bb)

\* the comparison reversed: the largest containing cluster wins
SmallerThanBest_Largest(area, best) == best.id = NoId \/ area > best.area

\* content.js 297: area < minArea, minArea starting at Infinity (best.id = NoId)
SmallerThanBest(area, best) == best.id = NoId \/ area < best.area

\* content.js 284-302: the inner loop over the clusters, in insertion order
RECURSIVE ScanParents(_, _, _, _)
ScanParents(childId, childBox, cs, best) ==
  IF cs = <<>> THEN best
  ELSE LET p == Head(cs)
           hit == /\ childId # p.svgId
                  /\ BoxInside(childBox, p.bbox)
                  /\ SmallerThanBest(Area(p.bbox), best)
       IN  ScanParents(childId, childBox, Tail(cs),
                       IF hit THEN [id |-> p.svgId, area |-> Area(p.bbox)] ELSE best)

\* content.js 282-306
ParentOf(el, cs) == ScanParents(el.svgId, el.bbox, cs, [id |-> NoId, area |-> 0]).id

AllElements == nodes \o clusters

ElementIds(els) == { els[i].svgId : i \in 1..Len(els) }

BuildHierarchy ==
  /\ fpc = "hierarchy"
  /\ parentMap' = [id \in ElementIds(AllElements) |->
                     LET el == CHOOSE e \in { AllElements[i] : i \in 1..Len(AllElements) } : e.svgId = id
                     IN  ParentOf(el, clusters)]
  /\ fpc' = "edges"
  /\ UNCHANGED <<svg, nodes, clusters, edges, walk, mermaidCode>>
  /\ UNCHANGED notFlowVars

\* parentMap[id] of the code: undefined (NoId) for an id that has no entry
Parent(id) == IF id \in DOMAIN parentMap THEN parentMap[id] ELSE NoId

(***************************************************************************)
(* Flowchart recovery: step 4, resolving a link and its owning cluster     *)
(***************************************************************************)
NoNode == [type |-> "none"]

\* Object.values(nodes).find(n => n.mermaidId === name)
RECURSIVE FindNodeIn(_, _)
FindNodeIn(ns, name) ==
  IF ns = <<>> THEN NoNode
  ELSE IF Head(ns).mermaidId = name THEN Head(ns)
  ELSE FindNodeIn(Tail(ns), name)

Unresolved == [source |-> NoNode, target |-> NoNode]

\* content.js 329: pathId.replace(/^(L_|FL_)/, '')
StripLinkPrefix(pathId) ==
  IF StartsWith(pathId, <<"L", "_">>) THEN DropFirst(pathId, 2)
  ELSE IF StartsWith(pathId, <<"F", "L", "_">>) THEN DropFirst(pathId, 3)
  ELSE pathId

\* content.js 329-333: the name portion of the id, numeric suffix removed
NamePortion(pathId) ==
  LET parts == Split(StripLinkPrefix(pathId), "_")
      kept == IF Len(parts) > 1 /\ IsAllDigits(parts[Len(parts)])
              THEN SubSeq(parts, 1, Len(parts) - 1)
              ELSE parts
  IN  Join(kept, "_")

\* content.js 335-345: the first split point whose halves are both node ids
RECURSIVE SplitScan(_, _, _)
SplitScan(ns, name, i) ==
  IF i >= Len(name) THEN Unresolved
  ELSE LET s == FindNodeIn(ns, SubSeq(name, 1, i))
           t == FindNodeIn(ns, SubSeq(name, i + 1, Len(name)))
       IN  IF s # NoNode /\ t # NoNode
           THEN [source |-> s, target |-> t]
           ELSE SplitScan(ns, name, i + 1)

\* content.js 350-360: the fallback over the '_' separated parts
RECURSIVE PartScan(_, _, _)
PartScan(ns, parts, i) ==
  IF i >= Len(parts) THEN Unresolved
  ELSE LET s == FindNodeIn(ns, Join(SubSeq(parts, 1, i), "_"))
           t == FindNodeIn(ns, Join(SubSeq(parts, i + 1, Len(parts) - 1), "_"))
       IN  IF s # NoNode /\ t # NoNode
           THEN [source |-> s, target |-> t]
           ELSE PartScan(ns, parts, i + 1)

\* the scan starts at the second split point
SplitStart_Second == 1 + 1

\* content.js 335: for (let i = 1; ...)
SplitStart == 1

\* content.js 327-367
ResolveLink(ns, pathId) ==
  LET first == SplitScan(ns, NamePortion(pathId), SplitStart)
      parts == Split(StripLinkPrefix(pathId), "_")
  IN  IF first # Unresolved THEN first
      ELSE IF Len(parts) > 2 THEN PartScan(ns, parts, 1)
      ELSE Unresolved

InSeq(x, s) == \E i \in 1..Len(s) : s[i] = x

Last(s) == s[Len(s)]

IdleWalk == [phase |-> "next", idx |-> 1, source |-> NoId, target |-> NoId,
             sourceAncestors |-> <<>>, lca |-> NoId]

\* the target walk left out: the edge goes to the target's own parent
LcaContinues_NoWalk(lca, anc) == FALSE

\* content.js 401: while (lca && !sourceAncestors.includes(lca))
LcaContinues(lca, anc) == lca # NoId /\ ~InSeq(lca, anc)

\* content.js 323-367, 396: take the next path; skip it when unresolved
NextLink ==
  /\ fpc = "edges"
  /\ walk.phase = "next"
  /\ walk.idx <= Len(svg.linkEls)
  /\ LET pathId == svg.linkEls[walk.idx]
         r == ResolveLink(nodes, pathId)
     IN  IF pathId = <<>> \/ r = Unresolved
         THEN walk' = [walk EXCEPT !.idx = @ + 1]
         ELSE walk' = [phase |-> "ancestors", idx |-> walk.idx,
                       source |-> r.source.svgId, target |-> r.target.svgId,
                       sourceAncestors |-> <<Parent(r.source.svgId)>>, lca |-> NoId]
  /\ UNCHANGED <<svg, fpc, nodes, clusters, parentMap, edges, mermaidCode>>
  /\ UNCHANGED notFlowVars

\* content.js 397-400: one turn of the source ancestor loop, or its exit
AncestorStep ==
  /\ fpc = "edges"
  /\ walk.phase = "ancestors"
  /\ IF Last(walk.sourceAncestors) # NoId
     THEN /\ Len(walk.sourceAncestors) < MaxWalk
          /\ walk' = [walk EXCEPT !.sourceAncestors = Append(@, Parent(Last(@)))]
     ELSE walk' = [walk EXCEPT !.phase = "lca", !.lca = Parent(walk.target)]
  /\ UNCHANGED <<svg, fpc, nodes, clusters, parentMap, edges, mermaidCode>>
  /\ UNCHANGED notFlowVars

\* content.js 401-403: one turn of the target walk
LcaStep ==
  /\ fpc = "edges"
  /\ walk.phase = "lca"
  /\ LcaContinues(walk.lca, walk.sourceAncestors)
  /\ walk' = [walk EXCEPT !.lca = Parent(@)]
  /\ UNCHANGED <<svg, fpc, nodes, clusters, parentMap, edges, mermaidCode>>
  /\ UNCHANGED notFlowVars

\* the node collected under this svg id
NodeOf(svgId) == nodes[CHOOSE k \in 1..Len(nodes) : nodes[k].svgId = svgId]

\* the arrow points from the target to the source
EdgeText_Reversed(sourceNode, targetNode) ==
  targetNode.mermaidId \o <<" -->", " ">> \o sourceNode.mermaidId

\* content.js 392-393: the edge text, for a connector without label
EdgeText(sourceNode, targetNode) ==
  sourceNode.mermaidId \o <<" -->", " ">> \o targetNode.mermaidId

\* content.js 405: edges.push({ text, parentId: lca || 'root' })
PushEdge ==
  /\ fpc = "edges"
  /\ walk.phase = "lca"
  /\ ~LcaContinues(walk.lca, walk.sourceAncestors)
  /\ edges' = Append(edges, [source |-> walk.source, target |-> walk.target,
                             text |-> EdgeText(NodeOf(walk.source), NodeOf(walk.target)),
                             parentId |-> IF walk.lca # NoId THEN walk.lca ELSE RootId])
  /\ walk' = [IdleWalk EXCEPT !.idx = walk.idx + 1]
  /\ UNCHANGED <<svg, fpc, nodes, clusters, parentMap, mermaidCode>>
  /\ UNCHANGED notFlowVars

\* content.js 406-408: all paths visited, the output is generated
LinksDone ==
  /\ fpc = "edges"
  /\ walk.phase = "next"
  /\ walk.idx > Len(svg.linkEls)
  /\ fpc' = "emit"
  /\ UNCHANGED <<svg, nodes, clusters, parentMap, edges, walk, mermaidCode>>
  /\ UNCHANGED notFlowVars

(***************************************************************************)
(* Flowchart recovery: step 5, the Mermaid text (content.js 408-471)       *)
(***************************************************************************)
\* content.js 409-416: one declaration per identifier, in collection order
RECURSIVE NodeDeclarations(_, _)
NodeDeclarations(ns, defined) ==
  IF ns = <<>> THEN <<>>
  ELSE IF Head(ns).mermaidId \in defined THEN NodeDeclarations(Tail(ns), defined)
  ELSE Head(ns).mermaidId \o <<"[\"">> \o Head(ns).text \o <<"\"]", "\n">> \o
       NodeDeclarations(Tail(ns), defined \cup {Head(ns).mermaidId})

\* content.js 429-438, 454-456: the edges owned by parentId, one per line
RECURSIVE EdgeLines(_, _, _)
EdgeLines(es, parentId, indent) ==
  IF es = <<>> THEN <<>>
  ELSE (IF Head(es).parentId = parentId THEN indent \o Head(es).text \o <<"\n">> ELSE <<>>) \o
       EdgeLines(Tail(es), parentId, indent)

\* content.js 423-427: childrenMap[clusterId], in the order of allElements
ChildrenOf(clusterId) == SelectSeq(AllElements, LAMBDA e : Parent(e.svgId) = clusterId)

\* content.js 449-451: the nodes among the children, one per line
RECURSIVE NodeLines(_)
NodeLines(items) ==
  IF items = <<>> THEN <<>>
  ELSE (IF Head(items).type = "node" THEN <<"    ">> \o Head(items).mermaidId \o <<"\n">>
        ELSE <<>>) \o NodeLines(Tail(items))

\* content.js 440-466 buildSubgraphOutput
RECURSIVE SubgraphOutput(_)
RECURSIVE SubgraphsOf(_)
SubgraphsOf(items) ==
  IF items = <<>> THEN <<>>
  ELSE (IF Head(items).type = "cluster" THEN SubgraphOutput(Head(items)) ELSE <<>>) \o
       SubgraphsOf(Tail(items))

SubgraphOutput(cluster) ==
  <<"\n", "subgraph ">> \o cluster.mermaidId \o <<" [\"">> \o cluster.text \o <<"\"]", "\n">> \o
  NodeLines(ChildrenOf(cluster.svgId)) \o
  EdgeLines(edges, cluster.svgId, <<"    ">>) \o
  SubgraphsOf(ChildrenOf(cluster.svgId)) \o
  <<"end", "\n">>

\* content.js 468: the clusters without parent
TopLevelClusters == SelectSeq(clusters, LAMBDA c : Parent(c.svgId) = NoId)

\* content.js 208, 408-471: the returned text, <<>> for null
FlowchartOutput ==
  IF nodes = <<>> /\ clusters = <<>> THEN <<>>
  ELSE <<MermaidFence, "\n">> \o
       Trim(<<"flowchart TD", "\n", "\n">> \o NodeDeclarations(nodes, {}) \o <<"\n">> \o
            EdgeLines(edges, RootId, <<>>) \o SubgraphsOf(TopLevelClusters)) \o
       <<"\n", Fence>>

\* content.js 408-471: the output is generated and returned
Emit ==
  /\ fpc = "emit"
  /\ mermaidCode' = FlowchartOutput
  /\ fpc' = "done"
  /\ UNCHANGED <<svg, nodes, clusters, parentMap, edges, walk>>
  /\ UNCHANGED notFlowVars

FlowInit ==
  /\ BatchIdle /\ PagesIdle /\ ConvIdle /\ DiagramsIdle /\ UrlIdle /\ StateIdle /\ PopupIdle
  /\ svg \in { [nodeEls |-> ns, clusterEls |-> cs, linkEls |-> ls] :
               ns \in NodeElSeqs, cs \in ClusterElSeqs, ls \in LinkElSeqs }
  /\ fpc = "collectNodes"
  /\ nodes = <<>>
  /\ clusters = <<>>
  /\ parentMap = <<>>
  /\ edges = <<>>
  /\ walk = IdleWalk
  /\ mermaidCode = <<>>

FlowNext ==
  \/ CollectNodes
  \/ CollectClusters
  \/ BuildHierarchy
  \/ NextLink
  \/ AncestorStep
  \/ LcaStep
  \/ PushEdge
  \/ LinksDone
  \/ Emit

SpecFlow == FlowInit /\ [][FlowNext]_vars

(***************************************************************************)
(* Class diagram recovery (content.js 473-917)                             *)
(***************************************************************************)
\* String.prototype.includes
Includes(s, w) == \E i \in 1..(Len(s) - Len(w) + 1) : SubSeq(s, i, i + Len(w) - 1) = w

NoName == <<>>

\* content.js 483-485: /^classId-([^-]+(?:-[^-]+)*)-(\d+)$/, the class name
ClassNameOf(id) ==
  LET a == IF StartsWith(id, <<"classId", "-">>) THEN DropFirst(id, 2) ELSE <<>>
      k == TrailingDigits(a)
      nm == IF k >= 1 /\ Len(a) > k + 1 /\ a[Len(a) - k] = "-"
            THEN SubSeq(a, 1, Len(a) - k - 1) ELSE <<>>
  IN  IF /\ nm # <<>> /\ nm[1] # "-" /\ nm[Len(nm)] # "-"
         /\ \A i \in 1..(Len(nm) - 1) : ~(nm[i] = "-" /\ nm[i + 1] = "-")
      THEN nm ELSE NoName

\* content.js 479-518: classData, its keys in insertion order
RECURSIVE ClassDataOf(_, _)
ClassDataOf(els, sofar) ==
  IF els = <<>> THEN sofar
  ELSE LET nm == ClassNameOf(Head(els))
       IN  ClassDataOf(Tail(els),
                       IF nm = NoName \/ InSeq(nm, sofar) THEN sofar ELSE Append(sofar, nm))

\* content.js 765-777: the definition of each class, a class without members
RECURSIVE ClassDefinitions(_)
ClassDefinitions(names) ==
  IF names = <<>> THEN <<>>
  ELSE << <<"    class ">> \o Head(names) \o <<" {">>, <<"    }">> >> \o
       ClassDefinitions(Tail(names))

\* content.js 787: id.substring(3).replace(/_\d+$/, '')
RelationNamePart(id) ==
  LET a == DropFirst(id, 3)
      k == TrailingDigits(a)
  IN  IF k >= 1 /\ Len(a) > k /\ a[Len(a) - k] = "_"
      THEN SubSeq(a, 1, Len(a) - k - 1) ELSE a

NoPair == [from |-> NoName, to |-> NoName]

\* content.js 789-803: the first split of the parts into two class names
RECURSIVE ClassPairScan(_, _, _)
ClassPairScan(classData, idParts, i) ==
  IF i >= Len(idParts) THEN NoPair
  ELSE LET potentialFrom == Join(SubSeq(idParts, 1, i), "_")
           potentialTo == Join(SubSeq(idParts, i + 1, Len(idParts)), "_")
       IN  IF InSeq(potentialFrom, classData) /\ InSeq(potentialTo, classData)
           THEN [from |-> potentialFrom, to |-> potentialTo]
           ELSE ClassPairScan(classData, idParts, i + 1)

\* content.js 816-820
IsDashed(pathClass) == pathClass \cap {"dashed-line", "dotted-line", "dashed", "dotted"} # {}

\* the two classes written the other way round
Relation_Flipped(left, op, right) == right \o <<" ">> \o op \o <<" ">> \o left

\* content.js 822-904: the template of a relation text, left op right
Relation(left, op, right) == left \o <<" ">> \o op \o <<" ">> \o right

\* content.js 822-904: the decision table of the relation text
RelationshipType(fromClass, toClass, markerStartAttr, markerEndAttr, isDashed) ==
  LET lineStyle == IF isDashed THEN ".." ELSE "--"
      S(w) == Includes(markerStartAttr, w)
      E(w) == Includes(markerEndAttr, w)
  IN  IF S(<<"extension", "Start">>)
      THEN Relation(fromClass, <<"<|", lineStyle>>, toClass)
      ELSE IF E(<<"extension", "End">>)
      THEN Relation(toClass, <<"<|", lineStyle>>, fromClass)
      ELSE IF S(<<"lollipop", "Start">>) \/ S(<<"implement", "Start">>)
      THEN Relation(toClass, <<"..", "|>">>, fromClass)
      ELSE IF E(<<"implement", "End">>) \/ E(<<"lollipop", "End">>)
              \/ (E(<<"interface", "End">>) /\ isDashed)
      THEN Relation(fromClass, <<"..", "|>">>, toClass)
      ELSE IF S(<<"composition", "Start">>)
      THEN Relation(fromClass, <<"*", lineStyle>>, toClass)
      ELSE IF E(<<"composition", "End">>) \/ (E(<<"diamond", "End">>) /\ E(<<"filled">>))
      THEN Relation(toClass, <<"*", lineStyle>>, fromClass)
      ELSE IF S(<<"aggregation", "Start">>)
      THEN Relation(toClass, <<lineStyle, "o">>, fromClass)
      ELSE IF E(<<"aggregation", "End">>) \/ (E(<<"diamond", "End">>) /\ ~E(<<"filled">>))
      THEN Relation(fromClass, <<"o", lineStyle>>, toClass)
      ELSE IF S(<<"dependency", "Start">>)
      THEN Relation(toClass, <<"<", lineStyle>>, fromClass)
      ELSE IF E(<<"dependency", "End">>)
      THEN Relation(fromClass, <<lineStyle, ">">>, toClass)
      ELSE IF S(<<"arrow", "Start">>) \/ S(<<"open", "Start">>)
      THEN Relation(toClass, <<"<", lineStyle>>, fromClass)
      ELSE IF E(<<"arrow", "End">>) \/ E(<<"open", "End">>)
      THEN Relation(fromClass, <<lineStyle, ">">>, toClass)
      ELSE Relation(fromClass, <<lineStyle>>, toClass)

\* ---- content.js 533-612: the notes ----
\* An element of the drawing: its name, classes, id, the x and y attributes of
\* a rect, the translate() of a group (<<>> when it has none), its fill, its
\* text and its children.
SvgEl(tag, cls, id, x, y, at, fill, text, kids) ==
  [tag |-> tag, cls |-> cls, id |-> id, x |-> x, y |-> y, at |-> at, fill |-> fill,
   text |-> text, kids |-> kids]

\* the descendants of an element, in document order
RECURSIVE Descendants(_)
RECURSIVE DescendantsOfAll(_)
DescendantsOfAll(els) ==
  IF els = <<>> THEN <<>>
  ELSE <<Head(els)>> \o Descendants(Head(els)) \o DescendantsOfAll(Tail(els))
Descendants(el) == DescendantsOfAll(el.kids)

\* textContent
RECURSIVE SvgText(_)
RECURSIVE SvgTextOfAll(_)
SvgTextOfAll(els) ==
  IF els = <<>> THEN <<>> ELSE SvgText(Head(els)) \o SvgTextOfAll(Tail(els))
SvgText(el) == el.text \o SvgTextOfAll(el.kids)

IsNoteRect(e) == e.tag = "rect" /\ "note" \in e.cls
IsNoteText(e) == e.tag = "text" /\ "noteText" \in e.cls
IsNoteBackground(e) == e.tag = "path" /\ e.fill = "#fff5ad"
IsLabel(e) == e.tag = "p" \/ "nodeLabel" \in e.cls
IsPlainText(e) == e.tag \in {"text", "tspan"}

\* content.js 578: an added note has this text and lies within 10 of (x, y)
IsExistingNote(notes, text, x, y) ==
  \E k \in 1..Len(notes) :
    notes[k].text = text /\ Abs(notes[k].x - x) < 10 /\ Abs(notes[k].y - y) < 10

\* content.js 537-558: one g of querySelectorAll('g')
RectNote(notes, g) ==
  LET rects == SelectSeq(Descendants(g), IsNoteRect)
      texts == SelectSeq(Descendants(g), IsNoteText)
  IN  IF rects # <<>> /\ texts # <<>> /\ Trim(SvgText(texts[1])) # <<>>
      THEN Append(notes, [text |-> Trim(SvgText(texts[1])), x |-> rects[1].x, y |-> rects[1].y,
                          id |-> IF g.id # <<>> THEN g.id ELSE <<"note_", Len(notes)>>])
      ELSE notes

\* content.js 561-591: one g of querySelectorAll('g.node.undefined, g[id^="note"]')
NodeNote(notes, g) ==
  LET inside == Descendants(g)
      foreign == SelectSeq(inside, LAMBDA e : e.tag = "foreignObject")
      labels == IF foreign = <<>> THEN <<>> ELSE SelectSeq(Descendants(foreign[1]), IsLabel)
      plain == SelectSeq(inside, IsPlainText)
      text == IF labels # <<>> /\ Trim(SvgText(labels[1])) # <<>> THEN Trim(SvgText(labels[1]))
              ELSE IF plain # <<>> THEN Trim(SvgText(plain[1]))
              ELSE <<>>
      x == IF g.at = <<>> THEN 0 ELSE g.at[1]
      y == IF g.at = <<>> THEN 0 ELSE g.at[2]
  IN  IF /\ \/ SelectSeq(inside, IsNoteBackground) # <<>>
            \/ Includes(g.id, <<"note">>)
         /\ text # <<>>
         /\ ~IsExistingNote(notes, text, x, y)
      THEN Append(notes, [text |-> text, x |-> x, y |-> y,
                          id |-> IF g.id # <<>> THEN g.id ELSE <<"note_", Len(notes)>>])
      ELSE notes

RECURSIVE RectNotes(_, _)
RectNotes(gs, notes) ==
  IF gs = <<>> THEN notes ELSE RectNotes(Tail(gs), RectNote(notes, Head(gs)))

RECURSIVE NodeNotes(_, _)
NodeNotes(gs, notes) ==
  IF gs = <<>> THEN notes ELSE NodeNotes(Tail(gs), NodeNote(notes, Head(gs)))

\* content.js 533-612: the first method over every g, then the second over
\* the groups of class node undefined or whose id begins with note
ParseNotes(groups) ==
  LET gs == SelectSeq(DescendantsOfAll(groups), LAMBDA e : e.tag = "g")
      candidates == SelectSeq(gs, LAMBDA g : {"node", "undefined"} \subseteq g.cls
                                             \/ StartsWith(g.id, <<"note">>))
  IN  NodeNotes(candidates, RectNotes(gs, <<>>))

\* content.js 750-763: one line per note; the drawings of the model have no
\* connector from a note to a class
RECURSIVE NoteMermaidLines(_)
NoteMermaidLines(notes) ==
  IF notes = <<>> THEN <<>>
  ELSE << <<"    note \"">> \o Head(notes).text \o <<"\"">> >> \o NoteMermaidLines(Tail(notes))

\* content.js 479-533, 765-777: the classes are parsed and their definitions
\* written; the diagram has no notes
ParseClasses ==
  /\ classRec.pc = "classes"
  /\ LET classData == ClassDataOf(classSvg.classEls, <<>>)
         notes == ParseNotes(classSvg.groups)
     IN  classRec' = [classRec EXCEPT !.pc = "paths", !.classData = classData,
                        !.notes = notes,
                        !.mermaidLines = << <<"classDiagram">> >> \o NoteMermaidLines(notes) \o
                                         ClassDefinitions(classData)]
  /\ UNCHANGED classSvg
  /\ UNCHANGED notClassVars

\* content.js 782-913: one relation path; it is skipped when its id does not
\* start with id_ or does not split into two class names
RelatePath ==
  /\ classRec.pc = "paths"
  /\ classRec.index <= Len(classSvg.pathEls)
  /\ LET path == classSvg.pathEls[classRec.index]
         pair == ClassPairScan(classRec.classData, Split(RelationNamePart(path.id), "_"), 1)
     IN  IF ~StartsWith(path.id, <<"i", "d", "_">>) \/ pair = NoPair
         THEN classRec' = [classRec EXCEPT !.index = @ + 1]
         ELSE classRec' = [classRec EXCEPT
                !.index = @ + 1,
                !.mermaidLines = Append(@, <<"    ">> \o
                    RelationshipType(pair.from, pair.to, path.markerStart, path.markerEnd,
                                     IsDashed(path.class)))]
  /\ UNCHANGED classSvg
  /\ UNCHANGED notClassVars

\* content.js 915-916: null for an empty diagram, the fenced lines otherwise
ClassReturn ==
  /\ classRec.pc = "paths"
  /\ classRec.index > Len(classSvg.pathEls)
  /\ classRec' = [classRec EXCEPT
        !.pc = "done",
        !.result = IF /\ Len(classRec.mermaidLines) <= 1
                      /\ classRec.classData = <<>>
                      /\ classRec.notes = <<>>
                   THEN <<>>
                   ELSE <<MermaidFence, "\n">> \o Join(classRec.mermaidLines, "\n") \o
                        <<"\n", Fence>>]
  /\ UNCHANGED classSvg
  /\ UNCHANGED notClassVars

Marker(kind, end) == <<"url(#", kind, end, ")">>

StartMarkerKinds == {"extension", "lollipop", "implement", "composition", "aggregation",
                     "dependency", "arrow", "open"}
EndMarkerKinds == {"extension", "lollipop", "implement", "interface", "composition",
                   "aggregation", "dependency", "arrow", "open", "diamond"}

\* the markers of a path: none, one at the start, one at the end (the filled
\* diamond among them), or an extension marker at both ends
MarkerPairs ==
  { [start |-> <<>>, end |-> <<>>],
    [start |-> Marker("extension", "Start"), end |-> Marker("extension", "End")],
    [start |-> <<>>, end |-> <<"url(#", "filled", "-", "diamond", "End", ")">>] }
  \cup { [start |-> Marker(k, "Start"), end |-> <<>>] : k \in StartMarkerKinds }
  \cup { [start |-> <<>>, end |-> Marker(k, "End")] : k \in EndMarkerKinds }

RelationIds ==
  { <<"i", "d", "_", "A", "_", "B", "_", "1">>,
    <<"i", "d", "_", "B", "_", "A", "_", "1">>,
    <<"i", "d", "_", "A", "_", "B", "_", "B", "_", "2">>,
    <<"i", "d", "_", "X", "_", "Y", "_", "1">> }

PathEls ==
  { [id |-> id, markerStart |-> m.start, markerEnd |-> m.end, class |-> cls] :
      id \in RelationIds, m \in MarkerPairs,
      cls \in { {"relation"}, {"relation", "dashed-line"} } }

ClassElSeqs ==
  { << <<"classId", "-", "A", "-", "0">>, <<"classId", "-", "B", "-", "1">> >>,
    << <<"classId", "-", "A", "_", "B", "-", "0">>, <<"classId", "-", "B", "-", "1">>,
       <<"classId", "-", "A", "-", "2">>, <<"classId", "-", "A", "-", "3">>,
       <<"classId", "-", "4">> >> }

ClassInit ==
  /\ FlowIdle /\ BatchIdle /\ PagesIdle /\ ConvIdle /\ SeqIdle /\ UrlIdle /\ StateIdle /\ PopupIdle
  /\ classSvg \in { [classEls |-> cs, pathEls |-> ps, groups |-> <<>>] :
                    cs \in ClassElSeqs,
                    ps \in UNION { [1..n -> PathEls] : n \in 0..MaxRelations } }
  /\ classRec = [pc |-> "classes", classData |-> <<>>, index |-> 1, mermaidLines |-> <<>>,
                 result |-> <<>>, notes |-> <<>>]

ClassNext ==
  \/ ParseClasses
  \/ RelatePath
  \/ ClassReturn

SpecClass == ClassInit /\ [][ClassNext]_vars

\* ---- drawings with notes ----
Group(cls, id, at, kids) == SvgEl("g", cls, id, 0, 0, at, "", <<>>, kids)
Leaf(tag, cls, x, y, fill, text) == SvgEl(tag, cls, <<>>, x, y, <<>>, fill, text, <<>>)

\* a note drawn as rect.note and text.noteText in one group
RectNoteGroup(x, text) ==
  Group({}, <<>>, <<>>, <<Leaf("rect", {"note"}, x, 0, "", <<>>),
                          Leaf("text", {"noteText"}, 0, 0, "", text)>>)

\* a note drawn as a node of undefined type: a yellow path and a label in a
\* foreignObject, the whole placed with translate(x, 0)
NodeNoteGroup(x, text) ==
  Group({"node", "undefined"}, <<>>, <<x, 0>>,
        <<Leaf("path", {}, 0, 0, "#fff5ad", <<>>),
          SvgEl("foreignObject", {}, <<>>, 0, 0, <<>>, "", <<>>,
                <<Leaf("p", {}, 0, 0, "", text)>>)>>)

\* a note that both methods find: rect.note and text.noteText in a group
\* whose id begins with note
BothWaysGroup(x, text) ==
  Group({}, <<"note", "1">>, <<x, 0>>,
        <<Leaf("rect", {"note"}, x, 0, "", <<>>), Leaf("text", {"noteText"}, 0, 0, "", text)>>)

NoteXs == {0, 5, 100}
NoteGroups ==
  { RectNoteGroup(x, <<"n">>) : x \in NoteXs }
    \cup { NodeNoteGroup(x, <<"n">>) : x \in NoteXs }
    \cup { BothWaysGroup(0, <<"n">>), RectNoteGroup(0, <<"m">>) }

\* the notes lie at the top of the drawing, or inside the group that holds
\* the whole diagram
NoteDrawings ==
  LET flat == UNION { [1..n -> NoteGroups] : n \in 0..MaxNotes }
  IN  flat \cup { <<Group({}, <<>>, <<>>, f)>> : f \in flat }

NotesInit ==
  /\ FlowIdle /\ BatchIdle /\ PagesIdle /\ ConvIdle /\ SeqIdle /\ UrlIdle /\ StateIdle /\ PopupIdle
  /\ classSvg \in { [classEls |-> <<>>, pathEls |-> ps, groups |-> gs] :
                    gs \in NoteDrawings,
                    ps \in { <<>>, <<[id |-> <<"i", "d", "_", "A", "_", "B", "_", "1">>,
                                      markerStart |-> <<>>, markerEnd |-> <<>>,
                                      class |-> {"relation"}]>> } }
  /\ classRec = [pc |-> "classes", classData |-> <<>>, index |-> 1, mermaidLines |-> <<>>,
                 result |-> <<>>, notes |-> <<>>]

SpecNotes == NotesInit /\ [][ClassNext]_vars

(***************************************************************************)
(* Sequence diagram recovery (content.js 924-1208)                         *)
(***************************************************************************)
\* Array.prototype.sort((a, b) => a[f] - b[f]): a stable sort, ascending in f
RECURSIVE InsertByField(_, _, _)
InsertByField(sorted, e, f) ==
  IF sorted = <<>> THEN <<e>>
  ELSE IF e[f] < sorted[Len(sorted)][f]
       THEN Append(InsertByField(SubSeq(sorted, 1, Len(sorted) - 1), e, f), sorted[Len(sorted)])
       ELSE Append(sorted, e)

RECURSIVE SortByField(_, _)
SortByField(s, f) ==
  IF s = <<>> THEN <<>>
  ELSE InsertByField(SortByField(SubSeq(s, 1, Len(s) - 1), f), s[Len(s)], f)

\* content.js 933: textContent.trim().replace(/^"|"$/g, '')
ParticipantName(t) ==
  LET a == Trim(t)
      b == IF a # <<>> /\ a[1] = "\"" THEN Tail(a) ELSE a
  IN  IF b # <<>> /\ b[Len(b)] = "\"" THEN SubSeq(b, 1, Len(b) - 1) ELSE b

\* content.js 932-941: the actor boxes with a name, in markup order
RECURSIVE Participants(_)
Participants(els) ==
  IF els = <<>> THEN <<>>
  ELSE (IF ParticipantName(Head(els).name) # <<>>
        THEN <<[name |-> ParticipantName(Head(els).name), x |-> Head(els).x]>> ELSE <<>>) \o
       Participants(Tail(els))

\* content.js 945-952: the first participant of each name
RECURSIVE UniqueParticipants(_, _)
UniqueParticipants(ps, seenNames) ==
  IF ps = <<>> THEN <<>>
  ELSE IF Head(ps).name \in seenNames THEN UniqueParticipants(Tail(ps), seenNames)
  ELSE <<Head(ps)>> \o UniqueParticipants(Tail(ps), seenNames \cup {Head(ps).name})

\* content.js 1005-1012: the message texts that are not empty
RECURSIVE MessageTexts(_)
MessageTexts(els) ==
  IF els = <<>> THEN <<>>
  ELSE (IF Trim(Head(els).text) # <<>>
        THEN <<[text |-> Trim(Head(els).text), y |-> Head(els).y]>> ELSE <<>>) \o
       MessageTexts(Tail(els))


\* content.js 1031-1055: the curved paths whose ends are less than 20 apart
RECURSIVE SelfMessages(_)
SelfMessages(els) ==
  IF els = <<>> THEN <<>>
  ELSE (IF Abs(Head(els).x1 - Head(els).x2) < 20
        THEN <<[Head(els) EXCEPT !.isSelfMessage = TRUE]>> ELSE <<>>) \o
       SelfMessages(Tail(els))

\* content.js 1071-1078: the name of the first participant closest to x
RECURSIVE Closest(_, _, _)
Closest(ps, x, best) ==
  IF ps = <<>> THEN best.name
  ELSE Closest(Tail(ps), x,
               IF best.name = NoName \/ Abs(Head(ps).x - x) < best.dist
               THEN [name |-> Head(ps).name, dist |-> Abs(Head(ps).x - x)] ELSE best)

ClosestParticipant(ps, x) == Closest(ps, x, [name |-> NoName, dist |-> 0])

\* every line is paired with the first text
PairedText_First(messageTexts, i) == messageTexts[1]

\* content.js 1063: const messageText = messageTexts[i]
PairedText(messageTexts, i) == messageTexts[i]

\* content.js 1062-1117: the message of line i and text i
MessageOf(ps, line, messageText) ==
  [from |-> ClosestParticipant(ps, line.x1),
   to |-> ClosestParticipant(ps, IF line.isSelfMessage THEN line.x1 ELSE line.x2),
   text |-> messageText.text,
   arrow |-> IF line.isDashed THEN "-->>" ELSE "->>",
   y |-> line.y1,
   isSelfMessage |-> line.isSelfMessage]

\* content.js 1152-1154
RECURSIVE ParticipantLines(_)
ParticipantLines(ps) ==
  IF ps = <<>> THEN <<>>
  ELSE <<"  participant ">> \o Head(ps).name \o <<"\n">> \o ParticipantLines(Tail(ps))

\* content.js 1160-1195: the messages in the order of their y; the diagram
\* has no notes and no loops
RECURSIVE EventLines(_)
EventLines(events) ==
  IF events = <<>> THEN <<>>
  ELSE <<"  ">> \o Head(events).from \o <<Head(events).arrow>> \o Head(events).to \o
       <<": ">> \o Head(events).text \o <<"\n">> \o EventLines(Tail(events))

\* content.js 932-952
ParseParticipants ==
  /\ seqRec.pc = "participants"
  /\ seqRec' = [seqRec EXCEPT
        !.pc = "collect",
        !.uniqueParticipants = UniqueParticipants(SortByField(Participants(seqSvg.actors), "x"), {})]
  /\ UNCHANGED seqSvg
  /\ UNCHANGED notSeqVars

\* content.js 1004-1057: the texts and the lines are collected and sorted
CollectMessages ==
  /\ seqRec.pc = "collect"
  /\ seqRec' = [seqRec EXCEPT
        !.pc = "match",
        !.messageTexts = SortByField(MessageTexts(seqSvg.texts), "y"),
        !.messageLines = SortByField(seqSvg.lines \o SelfMessages(seqSvg.paths), "y1")]
  /\ UNCHANGED seqSvg
  /\ UNCHANGED notSeqVars

\* content.js 1061-1117: one turn of the matching loop
MatchMessage ==
  /\ seqRec.pc = "match"
  /\ seqRec.i <= Len(seqRec.messageLines) /\ seqRec.i <= Len(seqRec.messageTexts)
  /\ LET msg == MessageOf(seqRec.uniqueParticipants, seqRec.messageLines[seqRec.i],
                          PairedText(seqRec.messageTexts, seqRec.i))
     IN  seqRec' = [seqRec EXCEPT
           !.i = @ + 1,
           !.messages = IF msg.from # NoName /\ msg.to # NoName THEN Append(@, msg) ELSE @]
  /\ UNCHANGED seqSvg
  /\ UNCHANGED notSeqVars

\* content.js 1150-1207: the text is generated; null without participants
\* and messages
GenerateSequence ==
  /\ seqRec.pc = "match"
  /\ ~(seqRec.i <= Len(seqRec.messageLines) /\ seqRec.i <= Len(seqRec.messageTexts))
  /\ seqRec' = [seqRec EXCEPT
        !.pc = "done",
        !.result =
           IF seqRec.uniqueParticipants = <<>> /\ seqRec.messages = <<>> THEN <<>>
           ELSE <<MermaidFence, "\n">> \o
                Trim(<<"sequenceDiagram", "\n">> \o ParticipantLines(seqRec.uniqueParticipants) \o
                     <<"\n">> \o EventLines(SortByField(seqRec.messages, "y"))) \o
                <<"\n", Fence>>]
  /\ UNCHANGED seqSvg
  /\ UNCHANGED notSeqVars

\* the actor boxes: none, each actor drawn at the top and at the bottom, and
\* boxes in right-to-left markup order with one unnamed
ActorSeqs ==
  { <<>>,
    << [name |-> <<"Alice">>, x |-> 10], [name |-> <<"\"", "Bob", "\"">>, x |-> 50],
       [name |-> <<"Alice">>, x |-> 10], [name |-> <<"Bob">>, x |-> 50] >>,
    << [name |-> <<"Bob">>, x |-> 50], [name |-> <<" ">>, x |-> 30],
       [name |-> <<"Alice">>, x |-> 10] >> }

TextEls == { [text |-> t, y |-> y] : t \in {<<"m1">>, <<" ", "m2">>, <<>>}, y \in {1, 2} }

LineEls ==
  { [x1 |-> 10, x2 |-> 50, y1 |-> y, isDashed |-> FALSE, isSelfMessage |-> FALSE] : y \in {1, 2} }
  \cup
  { [x1 |-> 50, x2 |-> 10, y1 |-> y, isDashed |-> TRUE, isSelfMessage |-> FALSE] : y \in {1, 2} }

\* curved paths: a self message of Alice and a path that is none
PathSeqs ==
  { <<>>,
    << [x1 |-> 10, x2 |-> 12, y1 |-> 2, isDashed |-> FALSE, isSelfMessage |-> FALSE] >>,
    << [x1 |-> 10, x2 |-> 50, y1 |-> 1, isDashed |-> FALSE, isSelfMessage |-> FALSE] >> }

SeqInit ==
  /\ FlowIdle /\ BatchIdle /\ PagesIdle /\ ConvIdle /\ ClassIdle /\ UrlIdle /\ StateIdle /\ PopupIdle
  /\ seqSvg \in { [actors |-> a, texts |-> t, lines |-> l, paths |-> p] :
                  a \in ActorSeqs,
                  t \in UNION { [1..n -> TextEls] : n \in 0..MaxMessages },
                  l \in UNION { [1..n -> LineEls] : n \in 0..MaxMessages },
                  p \in PathSeqs }
  /\ seqRec = [pc |-> "participants", uniqueParticipants |-> <<>>, messageTexts |-> <<>>,
               messageLines |-> <<>>, messages |-> <<>>, i |-> 1, result |-> <<>>]

SeqNext ==
  \/ ParseParticipants
  \/ CollectMessages
  \/ MatchMessage
  \/ GenerateSequence

SpecSeq == SeqInit /\ [][SeqNext]_vars

(***************************************************************************)
(* State diagram recovery (content.js 1215-1411)                           *)
(* Coordinates are integers; a distance is kept as its square.             *)
(***************************************************************************)
Max3(a, b, c) == IF a >= b /\ a >= c THEN a ELSE IF b >= c THEN b ELSE c

\* content.js 1313-1317 getDistanceToBox, squared
GetDistanceToBox(px, py, box) ==
  LET dx == Max3(box.x1 - px, 0, px - box.x2)
      dy == Max3(box.y1 - py, 0, py - box.y2)
  IN  dx * dx + dy * dy

\* content.js 1319-1321 getDistance between the middle of the path and a
\* label, squared and with every coordinate doubled
GetDistance(sumX, sumY, label) ==
  (sumX - 2 * label.x) * (sumX - 2 * label.x) + (sumY - 2 * label.y) * (sumY - 2 * label.y)

\* 1360, 5 squared; 1375, 150 doubled and squared
TouchDistance == 25
LabelDistance == 90000

\* content.js 1222-1250: the states that have a name
StateBoxes(els) ==
  LET named == SelectSeq(els, LAMBDA e : Trim(e.name) # <<>>)
  IN  [k \in 1..Len(named) |->
         [name |-> Trim(named[k].name), x1 |-> named[k].x1, y1 |-> named[k].y1,
          x2 |-> named[k].x2, y2 |-> named[k].y2, isSpecial |-> FALSE]]

\* content.js 1252-1271, 1273-1295: a start or end pseudostate at (tx, ty)
Pseudostate(c) ==
  [name |-> <<"[*]">>, x1 |-> c.tx - c.r, y1 |-> c.ty - c.r, x2 |-> c.tx + c.r,
   y2 |-> c.ty + c.r, isSpecial |-> TRUE]

\* content.js 1343-1356: the index of the node nearest to the point, the first
\* of the nearest ones; 0 when there is no node
RECURSIVE NearestNode(_, _, _, _, _)
NearestNode(ns, px, py, k, best) ==
  IF k > Len(ns) THEN best
  ELSE NearestNode(ns, px, py, k + 1,
         IF best = 0 \/ GetDistanceToBox(px, py, ns[k]) < GetDistanceToBox(px, py, ns[best])
         THEN k ELSE best)

\* content.js 1368-1377: the text of the nearest label within reach
RECURSIVE NearestLabel(_, _, _, _, _)
NearestLabel(ls, sumX, sumY, k, best) ==
  IF k > Len(ls) THEN best
  ELSE NearestLabel(ls, sumX, sumY, k + 1,
         IF best = 0 \/ GetDistance(sumX, sumY, ls[k]) < GetDistance(sumX, sumY, ls[best])
         THEN k ELSE best)

TransitionLabel(ls, path) ==
  LET sumX == path.startX + path.endX
      sumY == path.startY + path.endY
      closest == NearestLabel(ls, sumX, sumY, 1, 0)
  IN  IF closest # 0 /\ GetDistance(sumX, sumY, ls[closest]) < LabelDistance
      THEN ls[closest].text ELSE <<>>

\* self-loops are kept
IsSelfLoop_Never(ns, source, target) == FALSE
\* content.js 1379 sourceNode === targetNode: the same object
IsSelfLoop(ns, source, target) == source = target

\* content.js 1326-1393: the transitions after one more path
TransitionsWith(ns, ls, transitions, path) ==
  LET source == NearestNode(ns, path.startX, path.startY, 1, 0)
      target == NearestNode(ns, path.endX, path.endY, 1, 0)
  IN  IF /\ source # 0 /\ target # 0
         /\ GetDistanceToBox(path.startX, path.startY, ns[source]) < TouchDistance
         /\ GetDistanceToBox(path.endX, path.endY, ns[target]) < TouchDistance
         /\ ~IsSelfLoop(ns, source, target)
      THEN LET newTransition == [from |-> ns[source].name, to |-> ns[target].name,
                                 label |-> TransitionLabel(ls, path),
                                 source |-> source, target |-> target]
           IN  IF \E k \in 1..Len(transitions) :
                    /\ transitions[k].from = newTransition.from
                    /\ transitions[k].to = newTransition.to
                    /\ transitions[k].label = newTransition.label
               THEN transitions ELSE Append(transitions, newTransition)
      ELSE transitions

\* content.js 1396-1403: one line per transition
RECURSIVE TransitionLines(_)
TransitionLines(ts) ==
  IF ts = <<>> THEN <<>>
  ELSE <<"    ">> \o Head(ts).from \o <<" --> ">> \o Head(ts).to \o
       (IF Head(ts).label # <<>> THEN <<" : \"">> \o Head(ts).label \o <<"\"">> ELSE <<>>) \o
       <<"\n">> \o TransitionLines(Tail(ts))

\* content.js 1220-1312: the states, the pseudostates and the labels
ParseStates ==
  /\ stateRec.pc = "states"
  /\ stateRec' = [stateRec EXCEPT
        !.nodes = StateBoxes(stateSvg.states) \o
                  [k \in 1..Len(stateSvg.start) |-> Pseudostate(stateSvg.start[k])] \o
                  [k \in 1..Len(stateSvg.ends) |-> Pseudostate(stateSvg.ends[k])],
        !.labels = SelectSeq(stateSvg.labels, LAMBDA l : l.text # <<>>),
        !.pc = "paths"]
  /\ UNCHANGED stateSvg
  /\ UNCHANGED notStateVars

\* content.js 1326-1393: one path.transition
ProcessPath ==
  /\ stateRec.pc = "paths"
  /\ stateRec.i <= Len(stateSvg.paths)
  /\ stateRec' = [stateRec EXCEPT
        !.transitions = TransitionsWith(stateRec.nodes, stateRec.labels, @,
                                        stateSvg.paths[stateRec.i]),
        !.i = @ + 1]
  /\ UNCHANGED stateSvg
  /\ UNCHANGED notStateVars

\* content.js 1395-1411: the text, <<>> for null
GenerateState ==
  /\ stateRec.pc = "paths"
  /\ stateRec.i > Len(stateSvg.paths)
  /\ stateRec' = [stateRec EXCEPT
        !.pc = "done",
        !.result = IF stateRec.transitions = <<>> THEN <<>>
                   ELSE <<MermaidFence, "\n">> \o
                        Trim(<<"stateDiagram-v2", "\n">> \o TransitionLines(stateRec.transitions))
                        \o <<"\n", Fence>>]
  /\ UNCHANGED stateSvg
  /\ UNCHANGED notStateVars

\* two states side by side, a start circle on the left, an end circle on the
\* right; two states may carry the same name or lie on the same place
LeftBox == [x1 |-> 0, y1 |-> 0, x2 |-> 10, y2 |-> 10]
RightBox == [x1 |-> 20, y1 |-> 0, x2 |-> 30, y2 |-> 10]
StateEls ==
  { [name |-> nm, x1 |-> b.x1, y1 |-> b.y1, x2 |-> b.x2, y2 |-> b.y2] :
      nm \in {<<"A">>, <<"B">>}, b \in {LeftBox, RightBox} }
StartCircle == [tx |-> -10, ty |-> 5, r |-> 2]
EndCircle == [tx |-> 45, ty |-> 5, r |-> 7]

\* the ends of the paths: on the right side of the left box, on the left side
\* of the right box, on the start circle, on the end circle
PathPoints == { <<10, 5>>, <<20, 5>>, <<-8, 5>>, <<38, 5>> }
TransitionPathEls == { [startX |-> a[1], startY |-> a[2], endX |-> b[1], endY |-> b[2]] :
               a \in PathPoints, b \in PathPoints }
LabelEls == { <<>>, <<[text |-> <<"go">>, x |-> 15, y |-> 5]>> }

StateInit ==
  /\ FlowIdle /\ BatchIdle /\ PagesIdle /\ ConvIdle /\ DiagramsIdle /\ UrlIdle /\ PopupIdle
  /\ stateSvg \in { [states |-> st, start |-> s0, ends |-> e, labels |-> l, paths |-> p] :
                    st \in UNION { [1..n -> StateEls] : n \in 0..MaxStates },
                    s0 \in { <<>>, <<StartCircle>> },
                    e \in { <<>>, <<EndCircle>> },
                    l \in LabelEls,
                    p \in UNION { [1..n -> TransitionPathEls] : n \in 0..MaxTransitions } }
  /\ stateRec = [pc |-> "states", nodes |-> <<>>, labels |-> <<>>, transitions |-> <<>>,
                 i |-> 1, result |-> <<>>]

StateNext ==
  \/ ParseStates
  \/ ProcessPath
  \/ GenerateState

SpecState == StateInit /\ [][StateNext]_vars

(***************************************************************************)
(* Flowchart recovery over encoded connector ids (content.js 323-367)      *)
(***************************************************************************)
\* node names of several characters, one a prefix and a suffix of another
LinkNodeNames == {<<"A", "1">>, <<"B", "2">>, <<"A">>, <<"A", "A">>, <<"B">>}

LinkNodeEls ==
  { [svgId |-> <<"flowchart", "-">> \o nm \o <<"-", "0">>, bbox |-> bb, text |-> NodeLabel(nm)] :
      nm \in LinkNodeNames, bb \in {SmallBox, FarBox} }

\* connector ids: halves written one after the other, with and without the
\* L_ prefix and the numeric suffix, and halves separated by '_'
EncodedLinkIds ==
  { <<"A", "1", "B", "2">>,
    <<"L", "_", "A", "1", "B", "2", "_", "0">>,
    <<"A", "A", "A">>,
    <<"B", "2", "A">>,
    <<"L", "_", "A", "_", "A", "A", "_", "0">>,
    <<"L", "_", "A", "_", "B", "_", "0">>,
    <<"L", "_", "A", "1", "_", "B", "2", "_", "x">> }

LinksInit ==
  /\ BatchIdle /\ PagesIdle /\ ConvIdle /\ DiagramsIdle /\ UrlIdle /\ StateIdle /\ PopupIdle
  /\ svg \in { [nodeEls |-> ns, clusterEls |-> cs, linkEls |-> ls] :
               ns \in { q \in UNION { [1..n -> LinkNodeEls] : n \in 0..MaxNodes } :
                         \A a, b \in DOMAIN q : a # b => q[a].svgId # q[b].svgId },
               cs \in { <<>>, <<[svgId |-> ClusterSvgId(1), bbox |-> WideBox]>> },
               ls \in UNION { [1..n -> EncodedLinkIds] : n \in 0..MaxLinks } }
  /\ fpc = "collectNodes"
  /\ nodes = <<>>
  /\ clusters = <<>>
  /\ parentMap = <<>>
  /\ edges = <<>>
  /\ walk = IdleWalk
  /\ mermaidCode = <<>>

SpecLinks == LinksInit /\ [][FlowNext]_vars

(***************************************************************************)
(* Flowchart recovery: properties                                          *)
(***************************************************************************)
HierarchyBuilt == fpc \in {"edges", "emit"}

ClusterIdx == 1..Len(clusters)

\* the recovered clusters, other than the element itself, whose box contains bb
ContainersOf(id, bb) ==
  { j \in ClusterIdx :
      /\ clusters[j].svgId # id
      /\ clusters[j].bbox.left <= bb.left /\ bb.right <= clusters[j].bbox.right
      /\ clusters[j].bbox.top <= bb.top /\ bb.bottom <= clusters[j].bbox.bottom }

BoxArea(bb) == (bb.right - bb.left) * (bb.bottom - bb.top)

StrictlyContains(outer, inner) ==
  /\ outer.left <= inner.left /\ inner.right <= outer.right
  /\ outer.top <= inner.top /\ inner.bottom <= outer.bottom
  /\ outer # inner

\* the parent is a containing cluster of minimal area, and is absent exactly
\* when no other cluster contains the element
ParentIsAMinimalContainer ==
  \A i \in 1..Len(AllElements) :
    LET e == AllElements[i]
        cont == ContainersOf(e.svgId, e.bbox)
    IN  /\ (Parent(e.svgId) = NoId) <=> (cont = {})
        /\ Parent(e.svgId) # NoId =>
             \E j \in cont : /\ clusters[j].svgId = Parent(e.svgId)
                             /\ \A k \in cont : BoxArea(clusters[j].bbox) <= BoxArea(clusters[k].bbox)

\* C1 as stated: E's parent is the cluster of minimal area among the other
\* clusters that contain E, E has no parent exactly when none contains it, and
\* for clusters A and B, if A strictly contains B and no smaller cluster also
\* contains B, then B's parent is A.
C1_AsStated ==
  HierarchyBuilt =>
    /\ ParentIsAMinimalContainer
    /\ \A a, b \in ClusterIdx :
         ( /\ a # b
           /\ StrictlyContains(clusters[a].bbox, clusters[b].bbox)
           /\ ~\E c \in ContainersOf(clusters[b].svgId, clusters[b].bbox) :
                 BoxArea(clusters[c].bbox) < BoxArea(clusters[a].bbox) )
         => Parent(clusters[b].svgId) = clusters[a].svgId

\* C1 (amended): E's parent is a cluster of minimal area among the other
\* clusters that contain E, the first collected one when several have that
\* area; E has no parent exactly when none contains it; and for clusters A and
\* B, if A strictly contains B and no other cluster of smaller or equal area
\* contains B, then B's parent is A.
C1_ParentIsFirstSmallestContainer ==
  HierarchyBuilt =>
    /\ ParentIsAMinimalContainer
    /\ \A i \in 1..Len(AllElements) :
         LET e == AllElements[i]
             cont == ContainersOf(e.svgId, e.bbox)
         IN  \A j \in cont :
               clusters[j].svgId = Parent(e.svgId) =>
                 \A k \in cont : k < j => BoxArea(clusters[k].bbox) > BoxArea(clusters[j].bbox)
    /\ \A a, b \in ClusterIdx :
         ( /\ a # b
           /\ StrictlyContains(clusters[a].bbox, clusters[b].bbox)
           /\ \A c \in ContainersOf(clusters[b].svgId, clusters[b].bbox) :
                 c # a => BoxArea(clusters[c].bbox) > BoxArea(clusters[a].bbox) )
         => Parent(clusters[b].svgId) = clusters[a].svgId

\* a cluster B inside two nested clusters, assigned to the smaller one
C1_Witness ==
  /\ HierarchyBuilt
  /\ \E a, b, c \in ClusterIdx :
       /\ a # b /\ b # c /\ a # c
       /\ StrictlyContains(clusters[a].bbox, clusters[b].bbox)
       /\ StrictlyContains(clusters[c].bbox, clusters[b].bbox)
       /\ BoxArea(clusters[c].bbox) > BoxArea(clusters[a].bbox)
       /\ Parent(clusters[b].svgId) = clusters[a].svgId

\* the proper ancestors of an element in the parent map
RECURSIVE AncestorsFrom(_, _)
AncestorsFrom(id, seen) ==
  IF Parent(id) = NoId \/ Parent(id) \in seen THEN seen
  ELSE AncestorsFrom(Parent(id), seen \cup {Parent(id)})

AncestorSet(id) == AncestorsFrom(id, {})

\* C2: every resolved edge is owned by the innermost cluster that is an
\* ancestor of both its source and its target, by 'root' when the endpoints
\* have no common ancestor, and never by a cluster that is not an ancestor
\* of both endpoints.
C2_EdgeOwnedByLowestCommonAncestor ==
  \A i \in 1..Len(edges) :
    LET e == edges[i]
        common == AncestorSet(e.source) \cap AncestorSet(e.target)
    IN  IF common = {}
        THEN e.parentId = RootId
        ELSE /\ e.parentId \in common
             /\ \A c \in common : c = e.parentId \/ c \in AncestorSet(e.parentId)

\* an edge between two nodes with different parents, owned by a cluster that
\* the target walk had to climb to
C2_Witness ==
  \E i \in 1..Len(edges) :
    /\ edges[i].parentId # RootId
    /\ edges[i].parentId # Parent(edges[i].target)
    /\ edges[i].parentId # Parent(edges[i].source)

(***************************************************************************)
(* URLs                                                                    *)
(* A URL is [host, path, slash]: the path segments and whether the         *)
(* pathname ends in '/'.  Two records are equal exactly when the hrefs are.*)
(***************************************************************************)
Url(h, p, sl) == [host |-> h, path |-> p, slash |-> sl]

\* README.md 115-132 (utils/tabNavigation.js) normalizeUrlForComparison:
\* trailing slashes of a non-root pathname are dropped
NormalizeUrlForComparison(u) ==
  IF u = NoUrl THEN NoUrl
  ELSE IF u.path # <<>> THEN [u EXCEPT !.slash = FALSE]
  ELSE u

\* README.md 134-136 urlsReferToSameDocument
UrlsReferToSameDocument(a, b) ==
  NormalizeUrlForComparison(a) = NormalizeUrlForComparison(b)

\* unnamed/part_000 1-5 SUPPORTED_WIKI_HOSTS
SUPPORTED_WIKI_HOSTS == {"deepwiki.com", "www.deepwiki.com", "app.devin.ai"}

\* unnamed/part_000 13-38 isSupportedWikiUrl
IsSupportedWikiUrl(u) ==
  /\ u # NoUrl
  /\ u.host \in SUPPORTED_WIKI_HOSTS
  /\ u.host = "app.devin.ai" => (u.path # <<>> /\ u.path[1] = "wiki")

(***************************************************************************)
(* isSupportedWikiUrl on the value it is given (utils/urlUtils.js)         *)
(* The argument is any JavaScript value; a string is a sequence of atoms   *)
(* (scheme, "//", host, "/", path segment, ...).  IsSupportedWikiUrl above *)
(* is the same function on the href of an already parsed Url record.       *)
(***************************************************************************)
JsNull == [type |-> "null"]
JsUndefined == [type |-> "undefined"]
JsNumber == [type |-> "number"]
JsString(s) == [type |-> "string", chars |-> s]

\* the schemes whose URLs have a host (WHATWG "special" schemes)
SpecialSchemes == {"https:", "http:"}
UrlSchemes == SpecialSchemes \cup {"mailto:"}

\* the atoms that end the host, and those that end the path, of a URL string
HostEnd == {"/", "?", "#"}
PathEnd == {"?", "#"}

\* ASCII lower case of a host atom
LowerCase(h) == IF h = "DeepWiki.com" THEN "deepwiki.com"
                ELSE IF h = "APP.devin.ai" THEN "app.devin.ai"
                ELSE h

\* the longest prefix of s without an atom of set
Before(s, set) ==
  IF \E i \in 1..Len(s) : s[i] \in set
  THEN SubSeq(s, 1, (CHOOSE i \in 1..Len(s) :
                       s[i] \in set /\ \A j \in 1..(i - 1) : s[j] \notin set) - 1)
  ELSE s

\* the segments of a path "/a/b": the atoms between the "/"
RECURSIVE PathSegments(_)
PathSegments(p) ==
  IF p = <<>> THEN <<>>
  ELSE LET seg == Before(Tail(p), {"/"})
       IN  <<seg>> \o PathSegments(DropFirst(Tail(p), Len(seg)))

\* new URL(): "." and ".." segments are resolved
RECURSIVE RemoveDotSegments(_, _)
RemoveDotSegments(segs, out) ==
  IF segs = <<>> THEN out
  ELSE IF Head(segs) = <<"..">>
       THEN RemoveDotSegments(Tail(segs),
              IF out = <<>> THEN <<>> ELSE SubSeq(out, 1, Len(out) - 1))
  ELSE IF Head(segs) = <<".">> THEN RemoveDotSegments(Tail(segs), out)
  ELSE RemoveDotSegments(Tail(segs), Append(out, Head(segs)))

RECURSIVE JoinSegments(_)
JoinSegments(segs) ==
  IF segs = <<>> THEN <<>>
  ELSE <<"/">> \o Head(segs) \o JoinSegments(Tail(segs))

\* the pathname of a special URL: "/" when the string has no path
UrlPathname(p) ==
  LET segs == RemoveDotSegments(PathSegments(p), <<>>)
  IN  IF segs = <<>> THEN <<"/">> ELSE JoinSegments(segs)

ParseFailure == [ok |-> FALSE, hostname |-> "", pathname |-> <<>>]

\* new URL(url): surrounding white space is stripped; a string without a
\* scheme, or with a special scheme and no host, throws; user info and port
\* are not part of hostname; hostname is lower case
ParseUrl(s) ==
  LET t == Trim(s)
  IN  IF t = <<>> \/ t[1] \notin UrlSchemes THEN ParseFailure
      ELSE IF t[1] \notin SpecialSchemes
           THEN [ok |-> TRUE, hostname |-> "", pathname |-> Before(Tail(t), PathEnd)]
      ELSE LET rest == IF Len(t) >= 2 /\ t[2] = "//" THEN DropFirst(t, 2) ELSE Tail(t)
               authority == Before(rest, HostEnd)
               hostPort == IF \E i \in 1..Len(authority) : authority[i] = "@"
                           THEN DropFirst(authority,
                                  CHOOSE i \in 1..Len(authority) :
                                    /\ authority[i] = "@"
                                    /\ \A j \in (i + 1)..Len(authority) : authority[j] # "@")
                           ELSE authority
               path == Before(DropFirst(rest, Len(authority)), PathEnd)
           IN  IF hostPort = <<>> \/ hostPort[1] = ":" THEN ParseFailure
               ELSE [ok |-> TRUE, hostname |-> LowerCase(hostPort[1]),
                     pathname |-> UrlPathname(path)]

\* unnamed/part_000 1-5: the required path prefix of each host
NoPrefix == <<"null">>
RequiredPathPrefix(hostname) ==
  IF hostname \in {"deepwiki.com", "www.deepwiki.com"} THEN NoPrefix
  ELSE <<"/", "wiki">>

\* unnamed/part_000 34-37
PathAllowed_AnyPrefix(pathname, prefix) == StartsWith(pathname, prefix)
PathAllowed(pathname, prefix) ==
  pathname = prefix \/ StartsWith(pathname, prefix \o <<"/">>)

\* unnamed/part_000 13-38 isSupportedWikiUrl: what the call does, [threw,
\* value]; the exception of new URL() is caught at 20-24
isSupportedWikiUrl(url) ==
  IF url.type # "string" \/ Len(url.chars) = 0 THEN [threw |-> FALSE, value |-> FALSE]
  ELSE LET parsedUrl == ParseUrl(url.chars)
       IN  IF ~parsedUrl.ok THEN [threw |-> FALSE, value |-> FALSE]
           ELSE IF parsedUrl.hostname \notin SUPPORTED_WIKI_HOSTS
                THEN [threw |-> FALSE, value |-> FALSE]
           ELSE IF RequiredPathPrefix(parsedUrl.hostname) = NoPrefix
                THEN [threw |-> FALSE, value |-> TRUE]
           ELSE [threw |-> FALSE,
                 value |-> PathAllowed(parsedUrl.pathname,
                                       RequiredPathPrefix(parsedUrl.hostname))]

\* one call of isSupportedWikiUrl
CallIsSupportedWikiUrl ==
  /\ urlCheck.pc = "call"
  /\ LET r == isSupportedWikiUrl(urlCheck.url)
     IN  urlCheck' = [urlCheck EXCEPT !.pc = IF r.threw THEN "threw" ELSE "returned",
                                      !.result = r.value]
  /\ UNCHANGED notUrlVars

\* the strings: an optional scheme, user info, a host, a port, a path, a query
UrlHosts == {"deepwiki.com", "www.deepwiki.com", "app.devin.ai", "DeepWiki.com",
             "example.com", "deepwiki.com.example.com", "devin.ai"}
UrlAuthorities ==
  { <<h>> : h \in UrlHosts } \cup { <<"deepwiki.com", "@", h>> : h \in {"example.com"} }
    \cup { <<h, ":", "8080">> : h \in {"app.devin.ai", "example.com"} } \cup { <<>> }
UrlPaths == { <<>>, <<"/">>, <<"/", "wiki">>, <<"/", "wiki", "/">>,
              <<"/", "wiki", "/", "my-report">>, <<"/", "wiki", "x">>, <<"/", "other">>,
              <<"/", "other", "/", "wiki">>, <<"/", "wiki", "/", "..", "/", "other">>,
              <<"/", "Some", "/", "Page">> }
UrlSuffixes == { <<>>, <<"?", "q">>, <<"#", "wiki">> }
UrlPrefixes == { <<"https:", "//">>, <<"http:", "//">>, <<"mailto:">>, <<>>, <<" ", "https:", "//">> }
UrlStrings ==
  { pre \o a \o p \o suf : pre \in UrlPrefixes, a \in UrlAuthorities,
                              p \in UrlPaths, suf \in UrlSuffixes }
    \cup { <<"not", " ", "a", " ", "url">>, <<>> }
UrlArguments == { JsString(s) : s \in UrlStrings } \cup { JsNull, JsUndefined, JsNumber }

UrlInit ==
  /\ FlowIdle /\ BatchIdle /\ PagesIdle /\ ConvIdle /\ DiagramsIdle /\ StateIdle /\ PopupIdle
  /\ urlCheck \in { [url |-> u, pc |-> "call", result |-> FALSE] : u \in UrlArguments }

UrlNext == CallIsSupportedWikiUrl

SpecUrl == UrlInit /\ [][UrlNext]_vars

\* two pages of one wiki
FirstPageUrl == Url("deepwiki.com", <<"o", "wiki", "p1">>, FALSE)
SecondPageUrl == Url("deepwiki.com", <<"o", "wiki", "p2">>, FALSE)
PageUrls == {FirstPageUrl, SecondPageUrl}

\* the first page reached with a trailing slash, and a page of another site
SlashUrl == Url("deepwiki.com", <<"o", "wiki", "p1">>, TRUE)
OtherSiteUrl == Url("example.com", <<>>, FALSE)

(***************************************************************************)
(* File names (utils/fileNameUtils.js)                                     *)
(***************************************************************************)
ForbiddenChars == {"<", ">", ":", "\"", "/", "\\", "|", "?", "*"}
DotDash == {".", "-"}

FALLBACK_FILENAME == <<"deepwiki", "-", "page">>

\* fileNameUtils.js 3-28 sanitizeFilename
SanitizeFilename(input, allowEmpty) ==
  LET a == ReplaceRuns(Trim(input), Whitespace, "-")
      b == ReplaceEach(a, ForbiddenChars, "-")
      c == ReplaceRuns(ReplaceRuns(b, {"."}, "."), {"-"}, "-")
      d == TrimEnd(TrimStart(c, DotDash), DotDash)
  IN  IF input = <<>> \/ d = <<>>
      THEN (IF allowEmpty THEN <<>> ELSE FALLBACK_FILENAME)
      ELSE d

NumAtom(n) == <<"0", "1", "2", "3", "4", "5", "6", "7", "8", "9">>[n + 1]

\* fileNameUtils.js 79-84: the first free '<candidate>-<n>', n = 2, 3, ...
RECURSIVE FirstFreeSuffix(_, _, _)
FirstFreeSuffix(candidate, suffix, usedTitles) ==
  IF (candidate \o <<"-", NumAtom(suffix)>>) \in usedTitles
  THEN FirstFreeSuffix(candidate, suffix + 1, usedTitles)
  ELSE candidate \o <<"-", NumAtom(suffix)>>

\* fileNameUtils.js 62-88 ensureUniqueFileTitle: the title returned
EnsureUniqueFileTitle(baseTitle, index, usedTitles) ==
  LET fallback == <<"page", "-", NumAtom(index)>>
      c0 == SanitizeFilename(IF baseTitle # <<>> THEN baseTitle ELSE fallback, TRUE)
      candidate == IF c0 # <<>> THEN c0 ELSE fallback
  IN  IF candidate \notin usedTitles THEN candidate
      ELSE FirstFreeSuffix(candidate, 2, usedTitles)

(***************************************************************************)
(* Batch job: status updates (background.js 76-107)                        *)
(***************************************************************************)
\* updateJobStatus(job, message, statusType, { running: true })
Upd(jb, msg, type) ==
  [jb EXCEPT !.lastMessage = msg, !.lastStatusType = type,
             !.lastUpdate = [message |-> msg, completed |-> jb.completed, running |-> TRUE,
                             cancelled |-> jb.cancelled,
                             cancelRequested |-> jb.cancelRequested]]

\* updateJobStatus(job, message, statusType, { completed: true, running: false })
UpdFinal(jb, msg, type) ==
  [jb EXCEPT !.lastMessage = msg, !.lastStatusType = type,
             !.lastUpdate = [message |-> msg, completed |-> TRUE, running |-> FALSE,
                             cancelled |-> jb.cancelled,
                             cancelRequested |-> jb.cancelRequested]]

(***************************************************************************)
(* Batch job: the ZIP (background.js 261-306)                              *)
(***************************************************************************)
MdExt == <<".", "md">>
IndexName == <<"README">> \o MdExt

\* JSZip file(name, data): an entry of that name is replaced
ZipFile(zip, name, content) ==
  IF \E i \in 1..Len(zip) : zip[i].name = name
  THEN [i \in 1..Len(zip) |-> IF zip[i].name = name THEN [name |-> name, content |-> content]
                                                    ELSE zip[i]]
  ELSE Append(zip, [name |-> name, content |-> content])

\* background.js 270-275: one link line per converted page
RECURSIVE IndexLines(_)
IndexLines(pages) ==
  IF pages = <<>> THEN <<>>
  ELSE <<"- [">> \o Head(pages).displayTitle \o <<"](">> \o Head(pages).fileTitle \o MdExt \o
       <<")", "\n">> \o IndexLines(Tail(pages))

\* background.js 269-275: the index, headed by the folder name
IndexContent(pages) ==
  <<"# ", "folderName", "\n", "\n", "## Content Index", "\n", "\n">> \o IndexLines(pages)

\* background.js 279-304: the page files, added after the index
RECURSIVE AddPageFiles(_, _)
AddPageFiles(zip, pages) ==
  IF pages = <<>> THEN zip
  ELSE AddPageFiles(ZipFile(zip, Head(pages).fileTitle \o MdExt, Head(pages).content),
                    Tail(pages))

\* background.js 268-304
BuildZip(pages) == AddPageFiles(ZipFile(<<>>, IndexName, IndexContent(pages)), pages)

(***************************************************************************)
(* Batch job: the code between two awaits, as a function of the job record *)
(***************************************************************************)
\* background.js 163-169: catch and finally of runBatchConversion
RunCatch(jb) ==
  [UpdFinal([jb EXCEPT !.completed = TRUE], "failed", "error") EXCEPT !.pc = "done"]

\* background.js 156-162, 168
FinishZip(jb) ==
  [UpdFinal([jb EXCEPT !.completed = TRUE], "zipSuccess", "success") EXCEPT !.pc = "done"]

\* background.js 154, 261-307
DownloadJobZip(jb) ==
  IF jb.cancelRequested THEN FinishZip(jb)
  ELSE LET jb1 == Upd(jb, "creatingZip", "info")
           jb2 == [jb1 EXCEPT !.zip = BuildZip(jb.convertedPages)]
       IN  [Upd(jb2, "compressing", "info") EXCEPT !.pc = "compress"]

\* background.js 251-258, then 136-154
AfterPages(jb) ==
  LET jb1 == IF ~jb.cancelRequested THEN Upd(jb, "complete", "success") ELSE jb
  IN  IF jb1.cancelRequested
      THEN [UpdFinal([jb1 EXCEPT !.cancelled = TRUE, !.completed = TRUE], "cancelled", "info")
              EXCEPT !.pc = "done"]
      ELSE IF jb1.convertedPages = <<>>
      THEN [UpdFinal([jb1 EXCEPT !.completed = TRUE], "noPages", "error") EXCEPT !.pc = "done"]
      ELSE DownloadJobZip(jb1)

\* the job does not go back to its start page
SafelyReturnToUrl_Skipped(jb) == AfterPages(jb)

\* background.js 249, README.md 182-188 safelyReturnToUrl up to its first await
SafelyReturnToUrl(jb) ==
  IF jb.currentPageUrl = NoUrl THEN AfterPages(jb)
  ELSE [jb EXCEPT !.phase = "return", !.pc = "ret_getTab",
                  !.returns = Append(@, jb.currentPageUrl)]

\* README.md 138-145 waitForPageInteractive up to its first await
WaitForPageInteractive(jb, targetUrl) ==
  [jb EXCEPT !.target = targetUrl, !.polled = FALSE, !.pc = "poll_get"]

\* README.md 174-180 ensureTabAtUrl up to its first await
EnsureTabAtUrl(jb, targetUrl, previousUrl) ==
  IF ~UrlsReferToSameDocument(previousUrl, targetUrl)
  THEN [jb EXCEPT !.target = targetUrl, !.pc = "nav_update",
                  !.returnNavs = IF jb.phase = "return" THEN Append(@, targetUrl) ELSE @]
  ELSE WaitForPageInteractive(jb, targetUrl)

\* the cancellation check left out
CancelSeen_Never(jb) == FALSE

\* background.js 186, 208: if (job.cancelRequested) break
CancelSeen(jb) == jb.cancelRequested

\* background.js 185-205: the head of the page loop, from page jb.idx on
RECURSIVE PageLoop(_)
PageLoop(jb) ==
  IF jb.idx > Len(jb.allPages) \/ CancelSeen(jb) THEN SafelyReturnToUrl(jb)
  ELSE LET page == jb.allPages[jb.idx]
           jb1 == Upd(jb, "processing", "info")
       IN  IF page.url = NoUrl
           THEN PageLoop([Upd([jb1 EXCEPT !.errorCount = @ + 1], "skipping", "error")
                            EXCEPT !.idx = @ + 1])
           ELSE EnsureTabAtUrl([jb1 EXCEPT !.phase = "page", !.attempts = Append(@, jb.idx)],
                               page.url, jb.lastVisitedUrl)

\* a failed page is counted twice
CountError_Twice(jb) == [jb EXCEPT !.errorCount = @ + 2]

\* background.js 232, 236: job.errorCount += 1
CountError(jb) == [jb EXCEPT !.errorCount = @ + 1]

\* background.js 235-241: the catch of one page, up to its await
PageCatch(jb) ==
  [Upd(CountError(jb), "failedPage", "error") EXCEPT !.pc = "fallback_getTab"]

\* background.js 212, README.md 100 and 108: convertToMarkdown goes to the tab
SendConvert(jb, nextPc) ==
  [jb EXCEPT !.sends = Append(@, [page |-> jb.idx, resend |-> (nextPc = "convert2"),
                                  afterCancel |-> jb.cancelAcked]),
             !.pc = nextPc]

\* the page is converted although its wait failed
OnNavError_ConvertAnyway(jb) ==
  IF jb.phase = "page" THEN SendConvert(jb, "convert1") ELSE AfterPages(jb)

\* an error thrown by ensureTabAtUrl: background.js 235 or README.md 191
OnNavError(jb) ==
  IF jb.phase = "page" THEN PageCatch(jb) ELSE AfterPages([jb EXCEPT !.returnFailed = TRUE])

\* ensureTabAtUrl returned the tab: background.js 206-212 or README.md 190
OnNavReady(jb) ==
  IF jb.phase = "return" THEN AfterPages(jb)
  ELSE LET jb1 == [jb EXCEPT !.lastVisitedUrl = jb.seenUrl]
       IN  IF CancelSeen(jb1) THEN SafelyReturnToUrl(jb1)
           ELSE SendConvert(jb1, "convert1")

\* background.js 215-228: the converted page that is stored
ConvertedPage(page, resp, processedCount, usedFileTitles) ==
  LET fallbackTitle == <<"Page", " ", NumAtom(processedCount + 1)>>
      displayTitle == IF page.title # <<>> THEN page.title
                      ELSE IF resp.markdownTitle # <<>> THEN resp.markdownTitle
                      ELSE fallbackTitle
      preferred == IF page.title # <<>> /\ Trim(page.title) # <<>> THEN page.title
                   ELSE IF resp.markdownTitle # <<>> THEN resp.markdownTitle
                   ELSE displayTitle
  IN  [displayTitle |-> displayTitle,
       fileTitle |-> EnsureUniqueFileTitle(preferred, processedCount + 1, usedFileTitles),
       content |-> resp.markdown,
       sourceUrl |-> page.url]

\* background.js 214-234: the reply to convertToMarkdown, this page only
StoreConvertResponse(jb, resp) ==
  IF resp.success
  THEN LET cp == ConvertedPage(jb.allPages[jb.idx], resp, jb.processedCount, jb.usedFileTitles)
       IN  [jb EXCEPT !.convertedPages = Append(@, cp),
                      !.usedFileTitles = @ \cup {cp.fileTitle},
                      !.processedCount = @ + 1]
  ELSE Upd(CountError(jb), "failedPage", "error")

\* the loop stays on its page
NextIndex_SamePage(jb) == jb.idx

\* background.js 185: for (const page of job.allPages)
NextIndex(jb) == jb.idx + 1

\* background.js 214-234 and the next turn of the loop
HandleConvertResponse(jb, resp) ==
  PageLoop([StoreConvertResponse(jb, resp) EXCEPT !.idx = NextIndex(jb)])

(***************************************************************************)
(* Batch job: the replies the job awaits, and the event handlers           *)
(***************************************************************************)
\* the locals of a finished async function are gone
Finished(jb) ==
  [jb EXCEPT !.idx = 0, !.lastVisitedUrl = NoUrl, !.usedFileTitles = {}, !.phase = "page",
             !.target = NoUrl, !.seenUrl = NoUrl, !.polled = FALSE]

\* the job record changes; background.js 167-169: the finally of
\* runBatchConversion deletes the registry entry of the job's tab
Commit(j, jb) ==
  /\ job' = [job EXCEPT ![j] = IF jb.pc = "done" THEN Finished(jb) ELSE jb]
  /\ batchJobs' = IF jb.pc = "done" THEN NoJob ELSE batchJobs

Running(j) == job[j].pc \notin {"idle", "done", "collected"}

PageTitle(u) == IF u = NoUrl \/ u.path = <<>> THEN <<"home">> ELSE <<u.path[Len(u.path)]>>

\* the page lists extractAllPages can answer on the page `cur`: distinct
\* hrefs, the current page among them
PageLists(cur) ==
  { l \in UNION { [1..n -> PageUrls \cup {SlashUrl}] : n \in 1..MaxPages } :
      /\ \A a, b \in 1..Len(l) : a # b => l[a] # l[b]
      /\ \E a \in 1..Len(l) : l[a] = cur }

PageEntries(l, cur, sel) ==
  [i \in 1..Len(l) |-> [url |-> l[i], title |-> PageTitle(l[i]),
                        selected |-> (sel /\ l[i] = cur)]]

\* the content script of a supported page answers
TabAnswers == tab.open /\ tab.ready /\ IsSupportedWikiUrl(tab.url)

\* background.js 367-384: startBatchConversion, and runBatchConversion up to
\* its first await (line 111)
StartBatchConversion(j) ==
  /\ batchJobs = NoJob
  /\ job[j].pc = "idle"
  /\ \A k \in DOMAIN job : k < j => job[k].pc # "idle"
  /\ job' = [k \in DOMAIN job |-> IF k = j THEN [IdleJob EXCEPT !.pc = "getTab"]
                              ELSE IF job[k].pc = "done" THEN CollectedJob
                              ELSE job[k]]
  /\ batchJobs' = j
  /\ UNCHANGED tab

\* background.js 385-396: cancelBatchConversion for a registered job
CancelBatchConversion(j) ==
  /\ batchJobs = j
  /\ job' = [job EXCEPT ![j] =
               [Upd([job[j] EXCEPT !.cancelRequested = TRUE], "cancelling", "info")
                  EXCEPT !.cancelAcked = TRUE]]
  /\ UNCHANGED <<batchJobs, tab>>

\* background.js 441-454: tabs.onRemoved
TabRemoved ==
  /\ tab.open
  /\ tab' = [tab EXCEPT !.open = FALSE, !.pending = NoUrl, !.ready = FALSE]
  /\ IF batchJobs # NoJob
     THEN /\ job' = [job EXCEPT ![batchJobs] =
                       UpdFinal([job[batchJobs] EXCEPT !.cancelled = TRUE, !.completed = TRUE],
                                "tabClosed", "error")]
          /\ batchJobs' = NoJob
     ELSE UNCHANGED <<batchJobs, job>>

\* the user reloads the page while a job runs: its content script is gone
\* until the page is up again
TabReloads ==
  /\ tab.open /\ tab.ready
  /\ \E j \in DOMAIN job : Running(j)
  /\ tab' = [tab EXCEPT !.ready = FALSE]
  /\ UNCHANGED <<batchJobs, job>>

\* the navigation started by chrome.tabs.update commits: the tab shows the
\* new url, its content script is not up yet
NavigationCommits ==
  /\ tab.open
  /\ tab.pending # NoUrl
  /\ tab' = [tab EXCEPT !.url = tab.pending, !.pending = NoUrl, !.ready = FALSE]
  /\ UNCHANGED <<batchJobs, job>>

\* the navigation started by chrome.tabs.update fails: the tab stays
NavigationFails ==
  /\ tab.open
  /\ tab.pending # NoUrl
  /\ tab' = [tab EXCEPT !.pending = NoUrl]
  /\ UNCHANGED <<batchJobs, job>>

\* content.js 1930-1931: the content script of the loaded page is up
ContentScriptReady ==
  /\ tab.open /\ ~tab.ready
  /\ IsSupportedWikiUrl(tab.url)
  /\ tab' = [tab EXCEPT !.ready = TRUE]
  /\ UNCHANGED <<batchJobs, job>>

\* background.js 111-120: chrome.tabs.get answers
GetTabReply(j) ==
  /\ job[j].pc = "getTab"
  /\ IF tab.open /\ IsSupportedWikiUrl(tab.url)
     THEN Commit(j, [Upd([job[j] EXCEPT !.currentPageUrl = tab.url, !.startUrl = tab.url],
                         "extracting", "info")
                       EXCEPT !.pc = "extract"])
     ELSE Commit(j, RunCatch(job[j]))
  /\ UNCHANGED tab

\* background.js 120-134, 172-179: extractAllPages answers with the page list
ExtractReply(j, pages) ==
  /\ job[j].pc = "extract"
  /\ TabAnswers
  /\ LET jb1 == [job[j] EXCEPT !.allPages = pages, !.total = Len(pages)]
         jb2 == Upd(jb1, "found", "info")
         sel == { i \in 1..Len(pages) : pages[i].selected }
         cur == IF sel # {} THEN pages[CHOOSE i \in sel : \A k \in sel : i <= k].url
                ELSE jb2.currentPageUrl
     IN  Commit(j, [jb2 EXCEPT !.currentPageUrl = cur, !.lastVisitedUrl = cur,
                               !.pc = "pj_getTab"])
  /\ UNCHANGED tab

\* background.js 120-124, 163: extractAllPages fails or answers success:false
ExtractFails(j) ==
  /\ job[j].pc = "extract"
  /\ Commit(j, RunCatch(job[j]))
  /\ UNCHANGED tab

\* background.js 179-185: chrome.tabs.get answers, the page loop starts
LoopStart(j) ==
  /\ job[j].pc = "pj_getTab"
  /\ Commit(j, PageLoop([job[j] EXCEPT !.idx = 1,
                                       !.lastVisitedUrl = IF tab.open THEN tab.url ELSE @]))
  /\ UNCHANGED tab

\* README.md 176-179: chrome.tabs.update answers
NavigateReply(j) ==
  /\ job[j].pc = "nav_update"
  /\ IF tab.open
     THEN /\ tab' = [tab EXCEPT !.pending = job[j].target]
          /\ Commit(j, WaitForPageInteractive(job[j], job[j].target))
     ELSE /\ Commit(j, OnNavError(job[j]))
          /\ UNCHANGED tab

\* README.md 142-157, 168: one chrome.tabs.get of the readiness loop
PollTab(j) ==
  /\ job[j].pc = "poll_get"
  /\ IF ~tab.open THEN Commit(j, OnNavError(job[j]))
     ELSE IF UrlsReferToSameDocument(tab.url, job[j].target)
     THEN Commit(j, [job[j] EXCEPT !.seenUrl = tab.url, !.pc = "poll_ping"])
     ELSE Commit(j, [job[j] EXCEPT !.polled = TRUE])
  /\ UNCHANGED tab

\* README.md 158-168, 96-113: the ping of the readiness loop is answered, by
\* the content script or by the one sendMessageToTab injects, or it fails
PollPing(j, injected) ==
  /\ job[j].pc = "poll_ping"
  /\ injected => tab.open /\ ~tab.ready /\ IsSupportedWikiUrl(tab.url)
  /\ IF TabAnswers \/ injected
     THEN /\ tab' = [tab EXCEPT !.ready = TRUE]
          /\ Commit(j, OnNavReady(
               [job[j] EXCEPT !.readySeen =
                  IF job[j].phase = "page" /\
                     NormalizeUrlForComparison(job[j].seenUrl) =
                       NormalizeUrlForComparison(job[j].allPages[job[j].idx].url)
                  THEN @ \cup {job[j].idx} ELSE @]))
     ELSE /\ Commit(j, [job[j] EXCEPT !.polled = TRUE, !.pc = "poll_get"])
          /\ UNCHANGED tab

\* the readiness wait never times out
WaitTimeout_Never(j) ==
  /\ FALSE
  /\ UNCHANGED <<batchJobs, job, tab>>

\* README.md 142, 171: the readiness timeout has passed
WaitTimeout(j) ==
  /\ job[j].pc = "poll_get"
  /\ job[j].polled
  /\ Commit(j, OnNavError(
       [job[j] EXCEPT !.timedOut = IF job[j].phase = "page" THEN @ \cup {job[j].idx} ELSE @]))
  /\ UNCHANGED tab

ConvertResponses(u) ==
  { [success |-> TRUE, markdown |-> <<"md">> \o PageTitle(u), markdownTitle |-> <<"Untitled">>],
    [success |-> FALSE, markdown |-> <<>>, markdownTitle |-> <<>>] }

\* background.js 212-234, README.md 100-107: the first convertToMarkdown is
\* answered, or no receiver exists and the content script is injected
ConvertReply(j, resp) ==
  /\ job[j].pc = "convert1"
  /\ IF TabAnswers
     THEN /\ resp \in ConvertResponses(tab.url)
          /\ Commit(j, HandleConvertResponse(job[j], resp))
     ELSE /\ resp = [success |-> FALSE, markdown |-> <<>>, markdownTitle |-> <<>>]
          /\ Commit(j, [job[j] EXCEPT !.pc = "inject"])
  /\ UNCHANGED tab

\* README.md 81-94, 107-108: the script is injected and the request re-sent
InjectReply(j) ==
  /\ job[j].pc = "inject"
  /\ IF tab.open /\ IsSupportedWikiUrl(tab.url)
     THEN /\ tab' = [tab EXCEPT !.ready = TRUE]
          /\ Commit(j, SendConvert(job[j], "convert2"))
     ELSE /\ Commit(j, PageCatch(job[j]))
          /\ UNCHANGED tab

\* README.md 108, background.js 214-241: the re-sent request is answered
RetryReply(j, resp) ==
  /\ job[j].pc = "convert2"
  /\ IF TabAnswers
     THEN /\ resp \in ConvertResponses(tab.url)
          /\ Commit(j, HandleConvertResponse(job[j], resp))
     ELSE /\ resp = [success |-> FALSE, markdown |-> <<>>, markdownTitle |-> <<>>]
          /\ Commit(j, PageCatch(job[j]))
  /\ UNCHANGED tab

\* background.js 241-247: chrome.tabs.get of the catch answers, next page
FallbackReply(j) ==
  /\ job[j].pc = "fallback_getTab"
  /\ Commit(j, PageLoop([job[j] EXCEPT !.idx = NextIndex(job[j]),
                                       !.lastVisitedUrl = IF tab.open THEN tab.url ELSE @]))
  /\ UNCHANGED tab

\* README.md 188-194: chrome.tabs.get of safelyReturnToUrl answers
ReturnGetReply(j) ==
  /\ job[j].pc = "ret_getTab"
  /\ IF tab.open
     THEN Commit(j, EnsureTabAtUrl(job[j], job[j].currentPageUrl, tab.url))
     ELSE Commit(j, AfterPages([job[j] EXCEPT !.returnFailed = TRUE]))
  /\ UNCHANGED tab

\* background.js 307-320: generateAsync answers, the download is started
CompressReply(j) ==
  /\ job[j].pc = "compress"
  /\ IF job[j].cancelRequested
     THEN Commit(j, FinishZip(job[j]))
     ELSE Commit(j, [job[j] EXCEPT !.downloads = @ + 1,
                                   !.downloadsAfterCancel = IF job[j].cancelAcked THEN @ + 1 ELSE @,
                                   !.pc = "download"])
  /\ UNCHANGED tab

\* background.js 326-336, 156-169: the download callback runs
DownloadReply(j, ok) ==
  /\ job[j].pc = "download"
  /\ IF ok THEN Commit(j, FinishZip(job[j])) ELSE Commit(j, RunCatch(job[j]))
  /\ UNCHANGED tab

BatchInit ==
  /\ FlowIdle /\ PagesIdle /\ ConvIdle /\ DiagramsIdle /\ UrlIdle /\ StateIdle /\ PopupIdle
  /\ batchJobs = NoJob
  /\ job = [j \in JobIds |-> IdleJob]
  /\ tab \in { [open |-> TRUE, url |-> u, pending |-> NoUrl, ready |-> TRUE] :
               u \in {FirstPageUrl, SlashUrl, OtherSiteUrl} }

BatchNext ==
  \/ \E j \in DOMAIN job : StartBatchConversion(j) /\ UNCHANGED notBatchVars
  \/ \E j \in DOMAIN job : CancelBatchConversion(j) /\ UNCHANGED notBatchVars
  \/ TabRemoved /\ UNCHANGED notBatchVars
  \/ TabReloads /\ UNCHANGED notBatchVars
  \/ NavigationCommits /\ UNCHANGED notBatchVars
  \/ NavigationFails /\ UNCHANGED notBatchVars
  \/ ContentScriptReady /\ UNCHANGED notBatchVars
  \/ \E j \in DOMAIN job : GetTabReply(j) /\ UNCHANGED notBatchVars
  \/ \E j \in DOMAIN job : \E l \in PageLists(tab.url) : \E sel \in BOOLEAN :
       ExtractReply(j, PageEntries(l, tab.url, sel)) /\ UNCHANGED notBatchVars
  \/ \E j \in DOMAIN job : ExtractFails(j) /\ UNCHANGED notBatchVars
  \/ \E j \in DOMAIN job : LoopStart(j) /\ UNCHANGED notBatchVars
  \/ \E j \in DOMAIN job : NavigateReply(j) /\ UNCHANGED notBatchVars
  \/ \E j \in DOMAIN job : PollTab(j) /\ UNCHANGED notBatchVars
  \/ \E j \in DOMAIN job : \E injected \in BOOLEAN : PollPing(j, injected) /\ UNCHANGED notBatchVars
  \/ \E j \in DOMAIN job : WaitTimeout(j) /\ UNCHANGED notBatchVars
  \/ \E j \in DOMAIN job : \E r \in ConvertResponses(tab.url) :
       ConvertReply(j, r) /\ UNCHANGED notBatchVars
  \/ \E j \in DOMAIN job : InjectReply(j) /\ UNCHANGED notBatchVars
  \/ \E j \in DOMAIN job : \E r \in ConvertResponses(tab.url) :
       RetryReply(j, r) /\ UNCHANGED notBatchVars
  \/ \E j \in DOMAIN job : FallbackReply(j) /\ UNCHANGED notBatchVars
  \/ \E j \in DOMAIN job : ReturnGetReply(j) /\ UNCHANGED notBatchVars
  \/ \E j \in DOMAIN job : CompressReply(j) /\ UNCHANGED notBatchVars
  \/ \E j \in DOMAIN job : \E ok \in BOOLEAN : DownloadReply(j, ok) /\ UNCHANGED notBatchVars

SpecBatch == BatchInit /\ [][BatchNext]_vars

\* what job j awaits is answered: a tab query, a navigation, a message reply,
\* the compression or the download callback returns or fails
JobStep(j) ==
  \/ GetTabReply(j)
  \/ \E l \in PageLists(tab.url) : \E sel \in BOOLEAN : ExtractReply(j, PageEntries(l, tab.url, sel))
  \/ ExtractFails(j)
  \/ LoopStart(j)
  \/ NavigateReply(j)
  \/ PollTab(j)
  \/ \E injected \in BOOLEAN : PollPing(j, injected)
  \/ WaitTimeout(j)
  \/ \E r \in ConvertResponses(tab.url) : ConvertReply(j, r)
  \/ InjectReply(j)
  \/ \E r \in ConvertResponses(tab.url) : RetryReply(j, r)
  \/ FallbackReply(j)
  \/ ReturnGetReply(j)
  \/ CompressReply(j)
  \/ \E ok \in BOOLEAN : DownloadReply(j, ok)

\* every await of a job settles, and the clock of a readiness wait
\* (README.md 142) runs out however often the tab is polled
BatchFairness ==
  \A j \in JobIds :
    /\ WF_vars(JobStep(j) /\ UNCHANGED notBatchVars)
    /\ SF_vars(WaitTimeout(j) /\ UNCHANGED notBatchVars)

SpecBatchFair == BatchInit /\ [][BatchNext]_vars /\ BatchFairness

\* a tab on which a job is started, and another one after it
JobsInit ==
  /\ FlowIdle /\ PagesIdle /\ ConvIdle /\ DiagramsIdle /\ UrlIdle /\ StateIdle /\ PopupIdle
  /\ batchJobs = NoJob
  /\ job = [j \in 1..(MaxJobs + 1) |-> IdleJob]
  /\ tab = [open |-> TRUE, url |-> FirstPageUrl, pending |-> NoUrl, ready |-> TRUE]

SpecJobs == JobsInit /\ [][BatchNext]_vars

(***************************************************************************)
(* The pages of a job are stored and zipped, for any titles                *)
(***************************************************************************)
\* titles a sidebar link can carry (content.js 118-122: never empty)
ZipTitles == { <<"README">>, <<"a">>, <<"a", "-", "2">>, <<"a", " ", "2">>, <<"?">> }

ZipPageUrl(i) == Url("deepwiki.com", <<"o", "wiki", NumAtom(i)>>, FALSE)

\* the page lists of a job: distinct urls, any titles
ZipPageLists ==
  { [i \in 1..Len(t) |-> [url |-> ZipPageUrl(i), title |-> t[i], selected |-> FALSE]] :
      t \in UNION { [1..n -> ZipTitles] : n \in 1..MaxZipPages } }

\* the replies of the content script to the convertToMarkdown for page i
ZipResponses(i) ==
  { [success |-> TRUE, markdown |-> <<"md", NumAtom(i)>>, markdownTitle |-> <<"Untitled">>],
    [success |-> FALSE, markdown |-> <<>>, markdownTitle |-> <<>>] }

\* background.js 214-234: the reply for the page at hand is stored
StorePage(j, resp) ==
  /\ job[j].pc = "storing"
  /\ job[j].idx <= Len(job[j].allPages)
  /\ resp \in ZipResponses(job[j].idx)
  /\ job' = [job EXCEPT ![j] =
               [StoreConvertResponse(job[j], resp) EXCEPT !.idx = NextIndex(job[j])]]
  /\ UNCHANGED <<batchJobs, tab>>

\* background.js 154, 261-304: the ZIP of the stored pages is built
CreateZip(j) ==
  /\ job[j].pc = "storing"
  /\ job[j].idx > Len(job[j].allPages)
  /\ job[j].convertedPages # <<>>
  /\ job' = [job EXCEPT ![j] = [@ EXCEPT !.zip = BuildZip(job[j].convertedPages),
                                         !.pc = "zipped"]]
  /\ UNCHANGED <<batchJobs, tab>>

ZipInit ==
  /\ FlowIdle /\ PagesIdle /\ ConvIdle /\ DiagramsIdle /\ UrlIdle /\ StateIdle /\ PopupIdle
  /\ batchJobs = 1
  /\ tab = [open |-> TRUE, url |-> ZipPageUrl(1), pending |-> NoUrl, ready |-> TRUE]
  /\ \E l \in ZipPageLists :
       job = [j \in JobIds |->
                IF j = 1 THEN [IdleJob EXCEPT !.pc = "storing", !.allPages = l,
                                              !.total = Len(l), !.idx = 1,
                                              !.currentPageUrl = ZipPageUrl(1)]
                ELSE IdleJob]

ZipNext ==
  \/ \E j \in JobIds : \E i \in 1..(MaxZipPages + 1) : \E r \in ZipResponses(i) :
       StorePage(j, r) /\ UNCHANGED notBatchVars
  \/ \E j \in JobIds : CreateZip(j) /\ UNCHANGED notBatchVars

SpecZip == ZipInit /\ [][ZipNext]_vars

\* the entries of the ZIP named `name`
ZipEntries(zip, name) == { i \in 1..Len(zip) : zip[i].name = name }

\* C6: the ZIP of a job holds an entry README.md whose content is the index
\* with one link per converted page and, for every converted page, an entry
\* <fileTitle>.md with that page's Markdown; the entry names are pairwise
\* distinct, one for the index and one per page.
C6_ZipHoldsIndexAndEveryPage ==
  \A j \in JobIds :
    job[j].pc = "zipped" =>
      LET zip == job[j].zip
          pages == job[j].convertedPages
      IN  /\ \E i \in ZipEntries(zip, IndexName) : zip[i].content = IndexContent(pages)
          /\ \A k \in 1..Len(pages) :
               \E i \in ZipEntries(zip, pages[k].fileTitle \o MdExt) :
                 zip[i].content = pages[k].content
          /\ \A a, b \in 1..Len(zip) : a # b => zip[a].name # zip[b].name
          /\ Len(zip) = Len(pages) + 1

(***************************************************************************)
(* extractAllPages (content.js 71-185)                                     *)
(***************************************************************************)
\* the path segments that begin with "wiki" in any case: /\/wiki/i
WikiSegments == {"wiki", "Wiki", "WIKI", "wikis"}

\* content.js 87-89 isLikelyWikiPath
IsLikelyWikiPath(url, location) ==
  (\E k \in 1..Len(url.path) : url.path[k] \in WikiSegments) \/ url = location

\* URL.pathname
RECURSIVE PathOf(_)
PathOf(segs) == IF segs = <<>> THEN <<>> ELSE <<"/", Head(segs)>> \o PathOf(Tail(segs))

Pathname(url) ==
  IF url.path = <<>> THEN <<"/">>
  ELSE PathOf(url.path) \o (IF url.slash THEN <<"/">> ELSE <<>>)

\* the position of the entry of `key` in the seen map, 0 when absent
SeenAt(seen, key) ==
  IF \E k \in 1..Len(seen) : seen[k].url = key
  THEN CHOOSE k \in 1..Len(seen) : seen[k].url = key
  ELSE 0

\* content.js 101-133: one link visited by one selector
SeeLink(seen, link, location) ==
  IF link.href = NoUrl THEN seen
  ELSE IF link.href.host # location.host THEN seen
  ELSE IF ~IsLikelyWikiPath(link.href, location) THEN seen
  ELSE LET at == SeenAt(seen, link.href)
       IN  IF at = 0
           THEN Append(seen, [url |-> link.href,
                              title |-> IF Trim(link.text) # <<>> THEN Trim(link.text)
                                        ELSE Pathname(link.href),
                              selected |-> link.marked])
           ELSE IF ~seen[at].selected
           THEN [seen EXCEPT ![at].selected = link.marked]
           ELSE seen

\* content.js 141-174: the list that is answered
WithCurrentPage(pages, location, currentPageTitle) ==
  LET current == [url |-> location, title |-> currentPageTitle, selected |-> TRUE]
  IN  IF pages = <<>> THEN <<current>>
      ELSE IF \E k \in 1..Len(pages) : pages[k].url = location THEN pages
      ELSE <<current>> \o pages

\* the repository root, a page below it, and a page of the same name elsewhere
RepoUrl == Url("deepwiki.com", <<"o", "r">>, FALSE)
RepoPageUrl == Url("deepwiki.com", <<"o", "r", "p2">>, FALSE)
OtherSiteWikiUrl == Url("example.com", <<"wiki">>, FALSE)

Locations == {RepoUrl, FirstPageUrl}

LinkUrls == {RepoUrl, RepoPageUrl, FirstPageUrl, SecondPageUrl, OtherSiteWikiUrl}

\* a link element as a selector finds it; NoUrl: no href, or one that does not parse
LinkEls ==
  [href : LinkUrls \cup {NoUrl}, text : {<<"t">>, <<" ">>}, marked : BOOLEAN]

SidebarLinkSeqs == UNION { [1..n -> LinkEls] : n \in 0..MaxSidebarLinks }

\* content.js 101-103: the next link of the selectors' results
CollectLink ==
  /\ extract.pc = "collect"
  /\ extract.i <= Len(sidebar.links)
  /\ extract' = [extract EXCEPT
                   !.seen = SeeLink(extract.seen, sidebar.links[extract.i], sidebar.location),
                   !.i = @ + 1]
  /\ UNCHANGED sidebar

\* content.js 138-181: the links are collected, the response is sent
SendPages ==
  /\ extract.pc = "collect"
  /\ extract.i > Len(sidebar.links)
  /\ extract' = [extract EXCEPT
                   !.pages = WithCurrentPage(extract.seen, sidebar.location, <<"Untitled">>),
                   !.pc = "sent"]
  /\ UNCHANGED sidebar

PagesInit ==
  /\ FlowIdle /\ BatchIdle /\ ConvIdle /\ DiagramsIdle /\ UrlIdle /\ StateIdle /\ PopupIdle
  /\ sidebar \in [location : Locations, links : SidebarLinkSeqs]
  /\ extract = [pc |-> "collect", i |-> 1, seen |-> <<>>, pages |-> <<>>]

PagesNext ==
  \/ CollectLink /\ UNCHANGED notPageVars
  \/ SendPages /\ UNCHANGED notPageVars

SpecPages == PagesInit /\ [][PagesNext]_vars

\* the same-origin urls the sidebar links to
SameOriginLinked ==
  { sidebar.links[k].href : k \in { m \in 1..Len(sidebar.links) :
      sidebar.links[m].href # NoUrl /\ sidebar.links[m].href.host = sidebar.location.host } }

\* C7: the page list answered by extractAllPages holds every same-origin page
\* the sidebar links to, one entry per distinct URL, and the current page.
C7_ListHoldsEverySameOriginLink ==
  extract.pc = "sent" =>
    LET pages == extract.pages IN
    /\ \A u \in SameOriginLinked : \E k \in 1..Len(pages) : pages[k].url = u
    /\ \A a, b \in 1..Len(pages) : a # b => pages[a].url # pages[b].url
    /\ \E k \in 1..Len(pages) : pages[k].url = sidebar.location

(***************************************************************************)
(* processNode and the convertToMarkdown handler (content.js 25-70,        *)
(* 1413-1805)                                                              *)
(***************************************************************************)
EndsWith(s, p) == Len(s) >= Len(p) /\ SubSeq(s, Len(s) - Len(p) + 1, Len(s)) = p

\* Array.prototype.map over the lines: every line gets the prefix
PrefixLines(ls, prefix) == [k \in 1..Len(ls) |-> prefix \o ls[k]]

ErrMarker == <<"[err]">>

\* content.js 1801
ElementErrorMarker(tag) == <<"\n", "[ERROR_PROCESSING_ELEMENT: ", tag, "]", "\n", "\n">>

\* content.js 1437: the elements that are skipped
SkipTags == {"BUTTON", "NAV", "FOOTER", "ASIDE", "SCRIPT", "STYLE", "NOSCRIPT", "IFRAME",
             "EMBED", "OBJECT", "HEADER"}

\* content.js 1782-1783
BlockDisplays == {"block", "flex", "grid", "list-item", "table", "table-row-group",
                  "table-header-group", "table-footer-group"}

\* element.querySelector("svg"): the element holds a rendered diagram
RECURSIVE HasSvg(_)
HasSvg(n) == n.diagram # "none" \/ \E k \in 1..Len(n.kids) : HasSvg(n.kids[k])

\* content.js 1524-1548: the recoverer chosen from aria-roledescription
RecovererFor(desc) ==
  IF desc \in {"flowchart", "flowchart-v2"} THEN "flowchart"
  ELSE IF desc \in {"class", "classDiagram"} THEN "class"
  ELSE IF desc \in {"sequence"} THEN "sequence"
  ELSE IF desc \in {"stateDiagram"} THEN "state"
  ELSE "none"

\* content.js 1808-1809 detectCodeLanguage, for code shorter than 10 characters
DetectCodeLanguage(txt) == IF Len(Trim(txt)) < 10 THEN <<>> ELSE <<"?">>

\* both forms are emitted
PreOutput_Both(n, mermaidOutput) ==
  <<"\n">> \o mermaidOutput \o <<"\n", "\n">> \o
  <<Fence>> \o DetectCodeLanguage(n.text) \o <<"\n">> \o Trim(n.text) \o
  <<"\n", Fence, "\n", "\n">>

\* content.js 1557-1579: the diagram text, or the verbatim code block
PreOutput(n, mermaidOutput) ==
  IF mermaidOutput # <<>>
  THEN <<"\n">> \o mermaidOutput \o <<"\n", "\n">>
  ELSE <<Fence>> \o DetectCodeLanguage(n.text) \o <<"\n">> \o Trim(n.text) \o
       <<"\n", Fence, "\n", "\n">>

\* element.textContent: the text of every text node below the element, the
\* hidden and the skipped ones included
RECURSIVE TextContent(_)
TextContent(n) ==
  IF n.kids = <<>> THEN n.text
  ELSE TextContent(n.kids[1]) \o
       TextContent([n EXCEPT !.kids = Tail(n.kids), !.text = <<>>])

\* content.js 1463-1468: the heading marks of H1..H6
HeadingMarks == [H1 |-> "# ", H2 |-> "## ", H3 |-> "### ", H4 |-> "#### ",
                 H5 |-> "##### ", H6 |-> "###### "]

\* content.js 1463-1468: a heading is emitted from its textContent
Heading(n) ==
  LET txt == Trim(TextContent(n))
  IN  IF txt # <<>> THEN <<HeadingMarks[n.tag]>> \o txt \o <<"\n", "\n">> ELSE <<>>

\* content.js 1430-1432: the element is hidden by its computed style
HiddenByStyle(n) == n.display = "none" \/ n.visibility = "hidden"

\* content.js 1437: element.matches(button, [role="button"], nav, ...)
MatchesSkipList(n) == n.tag \in SkipTags \/ n.role = "button"

RECURSIVE ProcessNode(_)
RECURSIVE KidsText(_)
RECURSIVE DetailsContent(_)

\* content.js 1450-1452, 1779: the children's output, '[err]' for one that throws
KidsText(kids) ==
  IF kids = <<>> THEN <<>>
  ELSE LET r == ProcessNode(Head(kids))
       IN  (IF r.threw THEN ErrMarker ELSE r.md) \o KidsText(Tail(kids))

\* content.js 1766: the children of DETAILS; the catch of a child that throws
\* names `c`, which is not defined there, and throws itself
DetailsContent(kids) ==
  IF kids = <<>> THEN [md |-> <<>>, threw |-> FALSE]
  ELSE IF Head(kids).tag = "SUMMARY" THEN DetailsContent(Tail(kids))
  ELSE LET r == ProcessNode(Head(kids))
           rest == DetailsContent(Tail(kids))
       IN  IF r.threw THEN [md |-> <<>>, threw |-> TRUE]
           ELSE [md |-> r.md \o rest.md, threw |-> rest.threw]

\* ---- content.js 1582-1672: case A ----
\* 1601 href.startsWith('http'), ('/'), ('#'), ('mailto:'): the first atom of
\* an href is its scheme with "//", or "/", "#", or a name
LinkedHrefStarts == {"https://", "http://", "/", "#", "mailto:"}

LineNumbers == {"10", "20"}
NoLine == ""

\* 1605 href.match(/#L(\d+)(?:-L(\d+))?$/)
LineInfoMatch(href) ==
  LET len == Len(href)
  IN  IF /\ len >= 6
         /\ SubSeq(href, len - 5, len - 4) = <<"#", "L">>
         /\ href[len - 3] \in LineNumbers
         /\ SubSeq(href, len - 2, len - 1) = <<"-", "L">>
         /\ href[len] \in LineNumbers
      THEN [found |-> TRUE, startLine |-> href[len - 3], endLine |-> href[len]]
      ELSE IF len >= 3 /\ SubSeq(href, len - 2, len - 1) = <<"#", "L">>
                      /\ href[len] \in LineNumbers
      THEN [found |-> TRUE, startLine |-> href[len], endLine |-> NoLine]
      ELSE [found |-> FALSE, startLine |-> NoLine, endLine |-> NoLine]

\* the atoms that end in "/"
SlashAtoms == {"/", "https://", "http://"}

\* 1609 pathPart.substring(pathPart.lastIndexOf('/') + 1) || "link"
FilenameFromPath(pathPart) ==
  LET slashes == { i \in 1..Len(pathPart) : pathPart[i] \in SlashAtoms }
      rest == IF slashes = {} THEN pathPart
              ELSE DropFirst(pathPart, CHOOSE i \in slashes : \A j \in slashes : j <= i)
  IN  IF rest = <<>> THEN <<"link">> ELSE rest

SourcesOpen == <<"Sources", ":", " ", "[">>

\* 1619 startsWith("Sources: [") && endsWith("]")
IsSourcesContext(t) == StartsWith(t, SourcesOpen) /\ EndsWith(t, <<"]">>)

\* the atoms of text that are not made of letters, digits, "_", "/", "." or "-"
NotNameAtoms == {":", " ", "[", "]", "\n", "#"}

\* 1621-1626: the text inside "Sources: [...]", else the whole text;
\* 1630 match(/^[\w\/\.-]+(?:\.\w+)?/)
FilenameHint(t) ==
  LET inner == IF IsSourcesContext(t) THEN Trim(SubSeq(t, Len(SourcesOpen) + 1, Len(t) - 1))
               ELSE <<>>
  IN  Before(IF inner # <<>> THEN inner ELSE t, NotNameAtoms)

\* 1638-1643
LineRefText(startLine, endLine) ==
  IF endLine # NoLine /\ endLine # startLine THEN <<"L", startLine, "-", "L", endLine>>
  ELSE <<"L", startLine>>

\* 1605-1653: the display text of a link whose href ends in a line anchor
LineLinkText(href, trimmedInitialText) ==
  LET m == LineInfoMatch(href)
      pathPart == Before(href, {"#"})
      hint == FilenameHint(trimmedInitialText)
      displayFilename == IF hint # <<>> /\ Includes(pathPart, hint) THEN hint
                         ELSE FilenameFromPath(pathPart)
      constructedText == displayFilename \o <<" ">> \o LineRefText(m.startLine, m.endLine)
  IN  IF IsSourcesContext(trimmedInitialText)
      THEN SourcesOpen \o constructedText \o <<"]">>
      ELSE constructedText

\* 1582-1672; the links of the model hold no image
LinkOutput(n) ==
  LET href == n.href
      text == Trim(KidsText(n.kids))
      blockEnd == IF n.display # "inline" THEN <<"\n", "\n">> ELSE <<>>
  IN  IF href # <<>> /\ href[1] \in LinkedHrefStarts
      THEN LET finalLinkDisplayText == IF LineInfoMatch(href).found
                                       THEN LineLinkText(href, text) ELSE text
               shown == IF Trim(finalLinkDisplayText) # <<>> THEN Trim(finalLinkDisplayText)
                        ELSE href
           IN  <<"[">> \o shown \o <<"]", "(">> \o href \o <<")">> \o blockEnd
      ELSE LET shown == IF text # <<>> THEN text ELSE href
           IN  shown \o (IF Trim(shown) # <<>> THEN blockEnd ELSE <<>>)

\* ---- content.js 1718-1758: case TABLE ----
\* A row is named by its place: <<k>> is the k-th child of the table, <<k, j>>
\* the j-th child of the table's k-th child (a THEAD, TBODY or TFOOT).
RowAt(n, ref) ==
  IF Len(ref) = 1 THEN n.kids[ref[1]] ELSE n.kids[ref[1]].kids[ref[2]]

\* the TR children of the k-th child of the table
SectionRows(n, k) ==
  SelectSeq([j \in 1..Len(n.kids[k].kids) |-> <<k, j>>],
            LAMBDA ref : RowAt(n, ref).tag = "TR")

\* in document order from child k on: the rows of the sections named in
\* tags, and the TR children of the table itself that direct asks for
\* ("all", only a "first" child, or "none")
RECURSIVE RowRefs(_, _, _, _)
RowRefs(n, k, tags, direct) ==
  IF k > Len(n.kids) THEN <<>>
  ELSE (IF n.kids[k].tag \in tags THEN SectionRows(n, k)
        ELSE IF n.kids[k].tag = "TR" /\ (direct = "all" \/ (direct = "first" /\ k = 1))
             THEN << <<k>> >>
        ELSE <<>>) \o RowRefs(n, k + 1, tags, direct)

\* 1720 querySelectorAll(':scope > thead > tr, :scope > tr:first-child')
HeaderRows(n) == RowRefs(n, 1, {"THEAD"}, "first")
\* 1721 querySelectorAll(':scope > tbody > tr')
BodyRows(n) == RowRefs(n, 1, {"TBODY"}, "none")
\* 1722 element.rows: the rows of the THEAD, then those of the TBODYs and of
\* the table itself, then those of the TFOOT
AllRows(n) ==
  RowRefs(n, 1, {"THEAD"}, "none") \o RowRefs(n, 1, {"TBODY"}, "all") \o
  RowRefs(n, 1, {"TFOOT"}, "none")

\* row.cells
Cells(row) == SelectSeq(row.kids, LAMBDA c : c.tag \in {"TH", "TD"})

\* 1733-1734 the text of a header cell; 1751-1752 that of a body cell
HeaderCellText(cell) == ReplaceEach(Trim(KidsText(cell.kids)), {"|"}, "\\|")
BodyCellText(cell) == ReplaceRuns(HeaderCellText(cell), {"\n"}, " <br> ")

RECURSIVE HeaderContent(_)
HeaderContent(cells) ==
  IF cells = <<>> THEN <<>>
  ELSE <<" ">> \o HeaderCellText(Head(cells)) \o <<" ", "|">> \o HeaderContent(Tail(cells))

RECURSIVE Separator(_)
Separator(cells) ==
  IF cells = <<>> THEN <<>> ELSE <<" ", "---", " ", "|">> \o Separator(Tail(cells))

RECURSIVE RowContent(_)
RowContent(cells) ==
  IF cells = <<>> THEN <<>>
  ELSE <<" ">> \o BodyCellText(Head(cells)) \o <<" ", "|">> \o RowContent(Tail(cells))

\* the header row is written again among the body rows
IsHeaderRow_Never(rowsToProcessForHeader, ref) == FALSE
\* 1747 rowsToProcessForHeader.includes(row)
IsHeaderRow(rowsToProcessForHeader, ref) ==
  \E i \in 1..Len(rowsToProcessForHeader) : rowsToProcessForHeader[i] = ref

\* 1745-1755 the lines of the body rows
RECURSIVE BodyLines(_, _, _)
BodyLines(n, rows, rowsToProcessForHeader) ==
  IF rows = <<>> THEN <<>>
  ELSE (IF IsHeaderRow(rowsToProcessForHeader, Head(rows)) THEN <<>>
        ELSE <<"|">> \o RowContent(Cells(RowAt(n, Head(rows)))) \o <<"\n">>)
       \o BodyLines(n, Tail(rows), rowsToProcessForHeader)

\* 1718-1758
TableOutput(n) ==
  LET headerRows == HeaderRows(n)
      bodyRows == BodyRows(n)
      allRows == AllRows(n)
      rowsToProcessForHeader ==
        IF headerRows = <<>> /\ Len(allRows) > 0 THEN <<allRows[1]>> ELSE headerRows
      headerMd ==
        IF rowsToProcessForHeader # <<>>
        THEN LET cells == Cells(RowAt(n, rowsToProcessForHeader[1]))
             IN  <<"|">> \o HeaderContent(cells) \o <<"\n">> \o
                 <<"|">> \o Separator(cells) \o <<"\n">>
        ELSE <<>>
      rowsToProcessForBody ==
        IF bodyRows = <<>> /\ Len(allRows) > (IF headerRows # <<>> THEN 1 ELSE 0)
        THEN (IF headerRows # <<>> THEN Tail(allRows) ELSE allRows)
        ELSE bodyRows
      tableMd == headerMd \o BodyLines(n, rowsToProcessForBody, rowsToProcessForHeader)
  IN  tableMd \o (IF tableMd # <<>> THEN <<"\n">> ELSE <<>>)

\* content.js 1447-1798: the switch on the element's name
ProcessElement(n) ==
  IF n.fault = "body" THEN [md |-> <<>>, threw |-> TRUE]
  ELSE IF n.tag = "P"
  THEN LET txt == Trim(KidsText(n.kids))
       IN  [md |-> IF txt # <<>> THEN txt \o <<"\n", "\n">> ELSE <<"\n">>, threw |-> FALSE]
  ELSE IF n.tag \in DOMAIN HeadingMarks
  THEN [md |-> Heading(n), threw |-> FALSE]
  ELSE IF n.tag = "PRE"
  THEN LET mermaidOutput == IF n.diagram # "none" /\ RecovererFor(n.diagram) # "none"
                            THEN n.recovered ELSE <<>>
       IN  [md |-> PreOutput(n, mermaidOutput), threw |-> FALSE]
  ELSE IF n.tag = "DETAILS"
  THEN LET summaries == { k \in 1..Len(n.kids) : n.kids[k].tag = "SUMMARY" }
           tempSummary == IF summaries = {} THEN <<>>
                          ELSE Trim(KidsText(
                                 n.kids[CHOOSE k \in summaries : \A m \in summaries : k <= m].kids))
           summaryText == IF tempSummary # <<>> THEN tempSummary ELSE <<"Details">>
           details == DetailsContent(n.kids)
       IN  IF details.threw THEN [md |-> <<>>, threw |-> TRUE]
           ELSE [md |-> <<">", " ", "**">> \o summaryText \o <<"**", "\n">> \o
                        Join(PrefixLines(Split(Trim(details.md), "\n"), <<">", " ">>), "\n") \o
                        <<"\n", "\n">>,
                 threw |-> FALSE]
  ELSE IF n.tag = "A" THEN [md |-> LinkOutput(n), threw |-> FALSE]
  ELSE IF n.tag = "TABLE" THEN [md |-> TableOutput(n), threw |-> FALSE]
  ELSE IF n.tag \in {"THEAD", "TBODY", "TFOOT", "TR", "TH", "TD"}
  THEN [md |-> <<>>, threw |-> FALSE]
  ELSE IF n.tag = "SUMMARY" THEN [md |-> <<>>, threw |-> FALSE]
  ELSE LET txt == KidsText(n.kids)
       IN  IF n.display \in BlockDisplays /\ Trim(txt) # <<>>
           THEN [md |-> IF EndsWith(txt, <<"\n", "\n">>) THEN txt
                        ELSE IF EndsWith(txt, <<"\n">>) THEN txt \o <<"\n">>
                        ELSE TrimEnd(txt, Whitespace) \o <<"\n", "\n">>,
                 threw |-> FALSE]
           ELSE [md |-> txt, threw |-> FALSE]

\* content.js 1413-1805 processNode: the Markdown of the node, or the
\* exception that leaves the call
ProcessNode(n) ==
  IF n.tag = "#text" THEN [md |-> n.text, threw |-> FALSE]
  ELSE IF n.fault = "prelude" THEN [md |-> <<>>, threw |-> TRUE]
  ELSE IF HiddenByStyle(n) /\ n.tag \notin {"DETAILS", "SUMMARY"}
  THEN [md |-> <<>>, threw |-> FALSE]
  ELSE IF MatchesSkipList(n) THEN [md |-> <<>>, threw |-> FALSE]
  ELSE IF "bg-input-dark" \in n.cls /\ HasSvg(n) THEN [md |-> <<>>, threw |-> FALSE]
  ELSE LET r == ProcessElement(n)
       IN  IF r.threw THEN [md |-> ElementErrorMarker(n.tag), threw |-> FALSE] ELSE r

\* content.js 60: replace(/\n{3,}/g, "\n\n")
RECURSIVE CollapseBlankLines(_)
CollapseBlankLines(s) ==
  IF s = <<>> THEN <<>>
  ELSE IF Len(s) >= 3 /\ s[1] = "\n" /\ s[2] = "\n" /\ s[3] = "\n"
  THEN <<"\n", "\n">> \o CollapseBlankLines(TrimStart(s, {"\n"}))
  ELSE <<Head(s)>> \o CollapseBlankLines(Tail(s))

RECURSIVE Concat(_)
Concat(parts) == IF parts = <<>> THEN <<>> ELSE Head(parts).md \o Concat(Tail(parts))

\* the output is what the last request left
OutputStart_KeptFromLastCall ==
  IF responses = <<>> THEN <<>> ELSE responses[Len(responses)].markdown

\* content.js 52: the output starts empty
OutputStart == <<>>

\* content.js 25-70: the response to one convertToMarkdown request
ConvertResponse(container) ==
  LET parts == [k \in 1..Len(container) |-> ProcessNode(container[k])]
  IN  IF \E k \in 1..Len(parts) : parts[k].threw
      THEN [success |-> FALSE, markdown |-> <<>>, markdownTitle |-> <<>>, parts |-> parts]
      ELSE [success |-> TRUE,
            markdown |-> CollapseBlankLines(Trim(OutputStart \o Concat(parts))),
            markdownTitle |-> SanitizeFilename(<<"Untitled">>, FALSE),
            parts |-> parts]

\* a node of the document
Node(tag, text, kids, display, cls, fault, diagram, recovered) ==
  [tag |-> tag, text |-> text, kids |-> kids, display |-> display, cls |-> cls,
   fault |-> fault, diagram |-> diagram, recovered |-> recovered,
   visibility |-> "visible", role |-> "", href |-> <<>>]

TextNode(t) == Node("#text", t, <<>>, "inline", {}, "none", "none", <<>>)

\* an element whose conversion raises before the try of processNode
ThrowingSpan == Node("SPAN", <<>>, <<>>, "inline", {}, "prelude", "none", <<>>)

CodeText == <<" ", "A", "-", "-", ">", "B", "\n">>
MermaidText == <<MermaidFence, "\n", "flowchart TD", "\n", Fence>>

Pre(diagram, recovered, cls, fault) ==
  Node("PRE", CodeText, <<>>, "block", cls, fault, diagram, recovered)

RecoveredPre == Pre("flowchart-v2", MermaidText, {}, "none")

\* the code blocks: plain; a diagram recovered, not recovered, of a kind
\* without recoverer, inside a bg-input-dark block, with a recoverer that throws
PreNodes ==
  { Pre("none", <<>>, {}, "none"),
    RecoveredPre,
    Pre("flowchart-v2", <<>>, {}, "none"),
    Pre("pie", <<>>, {}, "none"),
    Pre("flowchart-v2", MermaidText, {"bg-input-dark"}, "none"),
    Pre("flowchart-v2", <<>>, {}, "body") }

InnerNodes == {TextNode(<<"x">>), ThrowingSpan, RecoveredPre}

KidSeqs == UNION { [1..n -> InnerNodes] : n \in 1..MaxKids }

CompositeNodes ==
  { Node(tag, <<>>, kids, "block", {}, "none", "none", <<>>) :
      tag \in {"P", "DIV", "DETAILS"}, kids \in KidSeqs }

TopNodes == InnerNodes \cup PreNodes \cup CompositeNodes

\* content.js 25-70: a convertToMarkdown request is answered
ConvertToMarkdown ==
  /\ dom # <<>>
  /\ Len(responses) < MaxRequests
  /\ responses' = Append(responses, ConvertResponse(dom))
  /\ UNCHANGED dom

ConvInit ==
  /\ FlowIdle /\ BatchIdle /\ PagesIdle /\ DiagramsIdle /\ UrlIdle /\ StateIdle /\ PopupIdle
  /\ dom \in UNION { [1..n -> TopNodes] : n \in 1..MaxTop }
  /\ responses = <<>>

ConvNext == ConvertToMarkdown /\ UNCHANGED notConvVars

SpecConv == ConvInit /\ [][ConvNext]_vars

Range(q) == { q[k] : k \in 1..Len(q) }

\* the texts of the text nodes below the nodes of `kids`
RECURSIVE TextsOf(_)
TextsOf(kids) ==
  UNION { IF kids[k].tag = "#text" THEN Range(kids[k].text) ELSE TextsOf(kids[k].kids) :
            k \in 1..Len(kids) }

\* some element below the nodes of `kids` raises an exception when converted
RECURSIVE SomeThrows(_)
SomeThrows(kids) ==
  \E k \in 1..Len(kids) : kids[k].fault # "none" \/ SomeThrows(kids[k].kids)

ErrorMarkers == {"[err]", "[ERROR_PROCESSING_ELEMENT: "}

\* C8: an exception raised while one element is converted is replaced by an
\* error marker in the output; the text of every other node is still
\* produced and the request is answered success:true with the Markdown.
C8_ElementFailureIsLocal ==
  \A k \in 1..Len(responses) :
    /\ responses[k].success
    /\ TextsOf(dom) \subseteq Range(responses[k].markdown)
    /\ SomeThrows(dom) => ErrorMarkers \cap Range(responses[k].markdown) # {}

\* the code blocks of the container that hold a rendered diagram
DiagramPres == { k \in 1..Len(dom) : dom[k].tag = "PRE" /\ dom[k].diagram # "none" }

\* the diagram text the selected recoverer returns, <<>> for null or no recoverer
RecoveredText(n) == IF RecovererFor(n.diagram) # "none" THEN n.recovered ELSE <<>>

\* the two forms of a converted code block
MermaidForm(n) == <<"\n">> \o RecoveredText(n) \o <<"\n", "\n">>
VerbatimForm(n) == <<Fence, "\n">> \o Trim(n.text) \o <<"\n", Fence, "\n", "\n">>

EmittedAsOneForm(n, out) ==
  /\ ~out.threw
  /\ out.md = (IF RecoveredText(n) # <<>> THEN MermaidForm(n) ELSE VerbatimForm(n))
  /\ ErrorMarkers \cap Range(out.md) = {}

ReachesPreCase(n) ==
  /\ n.display # "none"
  /\ "bg-input-dark" \notin n.cls
  /\ n.fault = "none"

Element(tag, kids) == Node(tag, <<>>, kids, "inline", {}, "none", "none", <<>>)

HiddenText == TextNode(<<"hid">>)

\* elements that are hidden by style or on the skip list, each holding a text
SkippedEls ==
  { Element("BUTTON", <<HiddenText>>),
    [Element("SPAN", <<HiddenText>>) EXCEPT !.display = "none"],
    [Element("SPAN", <<HiddenText>>) EXCEPT !.visibility = "hidden"],
    [Element("DIV", <<HiddenText>>) EXCEPT !.role = "button"],
    [Element("DETAILS", <<HiddenText>>) EXCEPT !.display = "none"],
    Element("NAV", <<Element("P", <<HiddenText>>)>>) }

SkipKidSeqs == UNION { [1..n -> {TextNode(<<"x">>)} \cup SkippedEls] : n \in 1..MaxKids }

\* the elements the skipped ones are nested in
SkipTopNodes ==
  SkippedEls \cup
  { [Element(tag, kids) EXCEPT !.display = "block"] :
      tag \in {"P", "DIV", "H2"}, kids \in SkipKidSeqs }

SkipInit ==
  /\ FlowIdle /\ BatchIdle /\ PagesIdle /\ DiagramsIdle /\ UrlIdle /\ StateIdle /\ PopupIdle
  /\ dom \in UNION { [1..n -> SkipTopNodes] : n \in 1..MaxTop }
  /\ responses = <<>>

SpecSkip == SkipInit /\ [][ConvNext]_vars

(***************************************************************************)
(* Tables                                                                  *)
(***************************************************************************)
Cell(tag, t) == Element(tag, <<TextNode(<<t>>)>>)
Row(cells) == Element("TR", cells)

NameAgeRow == Row(<<Cell("TH", "Name"), Cell("TH", "Age")>>)
AliceRow == Row(<<Cell("TD", "Alice"), Cell("TD", "30")>>)
TotalRow == Row(<<Cell("TH", "Total")>>)

\* the rows of a header section, and those of a body
HeadRowSeqs == UNION { [1..n -> {NameAgeRow, AliceRow, TotalRow}] : n \in 0..MaxTableRows }
BodyRowSeqs == UNION { [1..n -> {NameAgeRow, AliceRow}] : n \in 0..MaxTableRows }

\* a table: an optional THEAD, then TBODYs or rows that are children of the
\* table itself
TableHeads == { <<>> } \cup { <<Element("THEAD", rs)>> : rs \in HeadRowSeqs }
TableBodies ==
  UNION { [1..n -> { Element("TBODY", rs) : rs \in BodyRowSeqs }] : n \in 0..MaxTableRows }
    \cup BodyRowSeqs
Tables == { Node("TABLE", <<>>, h \o b, "table", {}, "none", "none", <<>>) :
              h \in TableHeads, b \in TableBodies }

NameAgeTable ==
  Node("TABLE", <<>>, <<Element("THEAD", <<NameAgeRow>>), Element("TBODY", <<AliceRow>>)>>,
       "table", {}, "none", "none", <<>>)

TableInit ==
  /\ FlowIdle /\ BatchIdle /\ PagesIdle /\ DiagramsIdle /\ UrlIdle /\ StateIdle /\ PopupIdle
  /\ dom \in { <<t>> : t \in Tables }
  /\ responses = <<>>

SpecTable == TableInit /\ [][ConvNext]_vars

\* the element is hidden by its computed style or matches the skip list
SkippedElement(n) == n.tag # "#text" /\ (HiddenByStyle(n) \/ MatchesSkipList(n))

\* the texts of the text nodes that are inside a hidden or skipped element
RECURSIVE TextsUnderSkipped(_)
TextsUnderSkipped(kids) ==
  UNION { IF SkippedElement(kids[k]) THEN TextsOf(<<kids[k]>>)
          ELSE TextsUnderSkipped(kids[k].kids) : k \in 1..Len(kids) }

\* the texts of the text nodes that are inside no hidden or skipped element
RECURSIVE TextsOutsideSkipped(_)
TextsOutsideSkipped(kids) ==
  UNION { IF kids[k].tag = "#text" THEN Range(kids[k].text)
          ELSE IF SkippedElement(kids[k]) THEN {}
          ELSE TextsOutsideSkipped(kids[k].kids) : k \in 1..Len(kids) }

\* C11: an element that is hidden by its computed style or matches the skip
\* list adds nothing to the Markdown, neither itself nor its descendants,
\* whatever its tag and whatever element it is nested in.
C11_SkippedElementsAddNothing ==
  \A r \in 1..Len(responses) :
    (TextsUnderSkipped(dom) \ TextsOutsideSkipped(dom)) \cap Range(responses[r].markdown) = {}

(***************************************************************************)
(* Properties of the parent map                                            *)
(***************************************************************************)
\* the element is among its own ancestors
IsOwnAncestor(id) == id \in AncestorsFrom(id, {})

\* the cluster is a top-level cluster or has one among its ancestors
ReachableFromTop(id) ==
  \/ Parent(id) = NoId
  \/ \E a \in AncestorsFrom(id, {}) : Parent(a) = NoId

\* C19: once the parent map is built it is a forest, whatever the boxes of the
\* recovered nodes and clusters (clusters with identical boxes or equal
\* areas included): no element is its own ancestor, so that the ancestor
\* walk of every connector ends, and every recovered cluster is a top-level
\* cluster or below one.
C19_ParentMapIsForest ==
  fpc \in {"edges", "emit", "done"} =>
    /\ \A k \in 1..Len(AllElements) : ~IsOwnAncestor(AllElements[k].svgId)
    /\ \A k \in 1..Len(clusters) : ReachableFromTop(clusters[k].svgId)
    /\ walk.phase = "ancestors" =>
         (Len(walk.sourceAncestors) < MaxWalk \/ Last(walk.sourceAncestors) = NoId)

(***************************************************************************)
(* Properties of the collected elements                                    *)
(***************************************************************************)
\* the recovered elements whose box has no area
ZeroAreaIds == { AllElements[k].svgId : k \in { i \in 1..Len(AllElements) :
                                                  Area(AllElements[i].bbox) = 0 } }

\* C21: a node or cluster whose box has zero area (width x height = 0) is
\* left out of the recovery: it is not among the recovered nodes and
\* clusters, so that it is declared nowhere, has no parent, is nobody's
\* parent and is the end of no edge.
C21_ZeroAreaExcluded ==
  /\ ZeroAreaIds = {}
  /\ \A id \in DOMAIN parentMap : Area((CHOOSE e \in Range(AllElements) : e.svgId = id).bbox) > 0
  /\ \A i \in 1..Len(edges) : Area(NodeOf(edges[i].source).bbox) > 0
                                /\ Area(NodeOf(edges[i].target).bbox) > 0

(***************************************************************************)
(* Properties of the connector resolution                                  *)
(***************************************************************************)
\* the identifiers of the declared (collected) nodes
DeclaredIds == { nodes[k].mermaidId : k \in 1..Len(nodes) }

\* the split points of a name whose halves are both declared identifiers
ValidSplits(name) ==
  { i \in 1..(Len(name) - 1) :
      /\ SubSeq(name, 1, i) \in DeclaredIds
      /\ SubSeq(name, i + 1, Len(name)) \in DeclaredIds }

FirstValidSplit(name) == CHOOSE i \in ValidSplits(name) : \A m \in ValidSplits(name) : i <= m

\* the node with this svg id has this identifier
HasMermaidId(svgId, name) ==
  \E k \in 1..Len(nodes) : nodes[k].svgId = svgId /\ nodes[k].mermaidId = name

\* source and target are the halves of the first valid split of the name
IsFirstSplitOf(source, target, name) ==
  LET i == FirstValidSplit(name)
  IN  /\ HasMermaidId(source, SubSeq(name, 1, i))
      /\ HasMermaidId(target, SubSeq(name, i + 1, Len(name)))

\* the connectors the edge loop has gone past
LinksPassed == IF fpc \in {"edges", "emit"} THEN 1..(walk.idx - 1) ELSE {}

\* C12: a connector whose name portion has a split point with both halves
\* declared node identifiers is resolved to the halves of the first such
\* split point; source and target of a resolved connector are always declared
\* nodes; the id "A1B2" with declared nodes A1 and B2 gives the edge A1 --> B2.
C12_FirstSplitWithBothHalvesDeclared ==
  /\ walk.phase \in {"ancestors", "lca"} =>
        LET name == NamePortion(svg.linkEls[walk.idx])
        IN  /\ \E k \in 1..Len(nodes) : nodes[k].svgId = walk.source
            /\ \E k \in 1..Len(nodes) : nodes[k].svgId = walk.target
            /\ ValidSplits(name) # {} => IsFirstSplitOf(walk.source, walk.target, name)
  /\ \A k \in LinksPassed :
        LET name == NamePortion(svg.linkEls[k])
        IN  /\ ValidSplits(name) # {} =>
                  \E e \in 1..Len(edges) : IsFirstSplitOf(edges[e].source, edges[e].target, name)
            /\ (svg.linkEls[k] = <<"A", "1", "B", "2">>
                  /\ {<<"A", "1">>, <<"B", "2">>} \subseteq DeclaredIds) =>
                  \E e \in 1..Len(edges) :
                     /\ HasMermaidId(edges[e].source, <<"A", "1">>)
                     /\ HasMermaidId(edges[e].target, <<"B", "2">>)
  /\ \A e \in 1..Len(edges) :
        /\ \E k \in 1..Len(nodes) : nodes[k].svgId = edges[e].source
        /\ \E k \in 1..Len(nodes) : nodes[k].svgId = edges[e].target

\* a connector with two valid split points was resolved and its edge pushed
C12_Witness ==
  /\ fpc = "emit"
  /\ edges # <<>>
  /\ \E k \in 1..Len(svg.linkEls) : Cardinality(ValidSplits(NamePortion(svg.linkEls[k]))) >= 2

(***************************************************************************)
(* Properties of the recovered flowchart text                              *)
(***************************************************************************)
StartNodeId == <<"flowchart", "-", "A", "-", "0">>
EndNodeId == <<"flowchart", "-", "B", "-", "0">>

\* the rendering of A["Start"] --> B["End"]: two node groups, in either
\* order, one connector path, no cluster
IsStartEndChart ==
  /\ Len(svg.nodeEls) = 2
  /\ {svg.nodeEls[1].svgId, svg.nodeEls[2].svgId} = {StartNodeId, EndNodeId}
  /\ \A k \in 1..2 : svg.nodeEls[k].text = (IF svg.nodeEls[k].svgId = StartNodeId
                                             THEN <<"Start">> ELSE <<"End">>)
  /\ svg.clusterEls = <<>>
  /\ svg.linkEls = << <<"L", "_", "A", "_", "B", "_", "0">> >>

\* the declaration line of a node group of that chart
DeclarationOf(el) ==
  IF el.svgId = StartNodeId THEN <<"A", "[\"", "Start", "\"]", "\n">>
  ELSE <<"B", "[\"", "End", "\"]", "\n">>

\* C13: the two-node flowchart A["Start"] --> B["End"] is recovered as the
\* declarations A["Start"] and B["End"], each once, and the single edge
\* A --> B, whichever node group comes first in the markup.
C13_TwoNodeChartRecovered ==
  (fpc = "done" /\ IsStartEndChart) =>
    mermaidCode = <<MermaidFence, "\n", "flowchart TD", "\n", "\n">> \o
                  DeclarationOf(svg.nodeEls[1]) \o DeclarationOf(svg.nodeEls[2]) \o
                  <<"\n", "A", " -->", " ", "B", "\n", Fence>>

\* the chart whose markup has the group of B first was recovered
C13_Witness ==
  /\ fpc = "done"
  /\ IsStartEndChart
  /\ svg.nodeEls[1].svgId = EndNodeId
  /\ mermaidCode # <<>>

(***************************************************************************)
(* Properties of the class relations                                       *)
(***************************************************************************)
\* the pairs of parsed class names a relation id is made of: id_<from>_<to>_<n>
DecodedPairs(id) ==
  { pr \in Range(classRec.classData) \X Range(classRec.classData) :
      /\ Len(id) >= 5
      /\ SubSeq(id, 1, 3) = <<"i", "d", "_">>
      /\ SubSeq(id, 4, Len(id) - 2) = pr[1] \o <<"_">> \o pr[2]
      /\ id[Len(id) - 1] = "_" /\ id[Len(id)] \in Digits }

\* the relation paths the recoverer has gone past
PathsPassed == IF classRec.pc \in {"paths", "done"} THEN 1..(classRec.index - 1) ELSE {}

\* the relation lines written so far: what follows the class definitions
RelationLines ==
  SubSeq(classRec.mermaidLines, 2 + 2 * Len(classRec.classData), Len(classRec.mermaidLines))

\* the line written for the k-th path, a path whose id decodes
RelationLineOf(k) ==
  RelationLines[Cardinality({ m \in 1..k : DecodedPairs(classSvg.pathEls[m].id) # {} })]

Solid(path) == path.class \cap {"dashed-line", "dotted-line"} = {}

\* C14: for a solid connector that decodes to (fromClass, toClass), an
\* extension marker at the start end gives 'fromClass <|-- toClass', and an
\* extension marker at the end end instead gives 'toClass <|-- fromClass'.
C14_InheritanceBaseAtMarkedEnd ==
  \A k \in PathsPassed :
    LET path == classSvg.pathEls[k]
    IN  \A pr \in DecodedPairs(path.id) :
          (DecodedPairs(path.id) = {pr} /\ Solid(path)) =>
            /\ path.markerStart = Marker("extension", "Start") =>
                  RelationLineOf(k) = <<"    ">> \o pr[1] \o <<" ", "<|", "--", " ">> \o pr[2]
            /\ (path.markerStart = <<>> /\ path.markerEnd = Marker("extension", "End")) =>
                  RelationLineOf(k) = <<"    ">> \o pr[2] \o <<" ", "<|", "--", " ">> \o pr[1]

\* a start-marked and an end-marked solid inheritance connector between two
\* different classes have been written
C14_Witness ==
  /\ classRec.pc = "done"
  /\ \E k \in PathsPassed :
       LET path == classSvg.pathEls[k]
       IN  /\ Solid(path)
           /\ \E pr \in DecodedPairs(path.id) : pr[1] # pr[2]
           /\ path.markerStart = <<>> /\ path.markerEnd = Marker("extension", "End")

\* the decoration symbols of a relation text
Decorations == {"<|", "|>", "*", "o", "<", ">"}

\* the class the decoration of a relation line is adjacent to
DecoratedClasses(line) ==
  LET parts == Split(DropFirst(line, 1), " ")
  IN  (IF parts[2][1] \in Decorations THEN {parts[1]} ELSE {}) \cup
      (IF parts[2][Len(parts[2])] \in Decorations THEN {parts[3]} ELSE {})

\* the marker kinds of the decision table
TableMarkerKinds == {"extension", "lollipop", "implement", "composition", "aggregation",
                     "dependency", "arrow", "open"}

\* C20: for every marker kind of the decision table, the decoration of the
\* relation text is adjacent to the class at the end of the connector that
\* carries the marker: the from class for a marker at the start end, the to
\* class for a marker at the end end.
C20_DecorationAtMarkedEnd ==
  \A k \in PathsPassed :
    LET path == classSvg.pathEls[k]
    IN  \A pr \in DecodedPairs(path.id) : \A kind \in TableMarkerKinds :
          (DecodedPairs(path.id) = {pr}) =>
            /\ (path.markerStart = Marker(kind, "Start") /\ path.markerEnd = <<>>) =>
                  DecoratedClasses(RelationLineOf(k)) = {pr[1]}
            /\ (path.markerStart = <<>> /\ path.markerEnd = Marker(kind, "End")) =>
                  DecoratedClasses(RelationLineOf(k)) = {pr[2]}

(***************************************************************************)
(* Properties of the sequence messages                                     *)
(***************************************************************************)
\* the message texts of the markup that are not empty, and the message
\* lines: the straight lines and the curved paths of self messages
MarkupTexts == SelectSeq(seqSvg.texts, LAMBDA t : Trim(t.text) # <<>>)
MarkupLines == seqSvg.lines \o SelectSeq(seqSvg.paths, LAMBDA q : Abs(q.x1 - q.x2) < 20)

\* the vertical positions of a list in ascending order
AscendingYs(ys) ==
  CHOOSE q \in [1..Len(ys) -> Range(ys)] :
    /\ \A i \in 1..(Len(ys) - 1) : q[i] <= q[i + 1]
    /\ \A v \in Range(ys) : Cardinality({ i \in 1..Len(ys) : q[i] = v })
                               = Cardinality({ i \in 1..Len(ys) : ys[i] = v })

TextYs == AscendingYs([i \in 1..Len(MarkupTexts) |-> MarkupTexts[i].y])
LineYs == AscendingYs([i \in 1..Len(MarkupLines) |-> MarkupLines[i].y1])

PairCount == IF Len(MarkupLines) < Len(MarkupTexts) THEN Len(MarkupLines) ELSE Len(MarkupTexts)

\* the i-th message is made of the i-th line and the i-th text in ascending
\* vertical order, and its line is part of the returned text
PairedByIndex(i) ==
  LET msg == seqRec.messages[i]
  IN  /\ msg.y = LineYs[i]
      /\ \E k \in 1..Len(MarkupLines) :
            /\ MarkupLines[k].y1 = LineYs[i]
            /\ msg.arrow = (IF MarkupLines[k].isDashed THEN "-->>" ELSE "->>")
      /\ \E k \in 1..Len(MarkupTexts) :
            MarkupTexts[k].y = TextYs[i] /\ msg.text = Trim(MarkupTexts[k].text)
      /\ Includes(seqRec.result, <<msg.arrow>> \o msg.to \o <<": ">> \o msg.text)

\* as many messages as the shorter list has entries, each paired by index
AllPairedByIndex ==
  /\ Len(seqRec.messages) = PairCount
  /\ \A i \in 1..PairCount : PairedByIndex(i)
  /\ Cardinality({ k \in 1..Len(seqRec.result) : seqRec.result[k] = ": " }) = PairCount

\* C15 as stated: for every i below min(number of lines, number of texts)
\* the i-th line in ascending vertical order is emitted with the i-th text
\* in ascending vertical order, and nothing else is emitted.
C15_AsStated == seqRec.pc = "done" => AllPairedByIndex

\* C15: when at least one participant was recovered, the i-th line in
\* ascending vertical order is emitted with the i-th text in ascending
\* vertical order for every i below min(number of lines, number of texts),
\* whatever their order in the markup, and a line or text beyond the shorter
\* list gives no message; without participant no message is emitted.
C15_LinesPairedWithTextsByHeight ==
  seqRec.pc = "done" =>
    IF seqRec.uniqueParticipants # <<>> THEN AllPairedByIndex
    ELSE seqRec.messages = <<>> /\ seqRec.result = <<>>

\* two messages were emitted whose texts, and whose lines, stand in the
\* markup in descending vertical order, with a further line left over
C15_Witness ==
  /\ seqRec.pc = "done"
  /\ Len(seqRec.messages) = 2
  /\ Len(MarkupLines) = 3 /\ Len(MarkupTexts) = 2
  /\ MarkupTexts[1].y > MarkupTexts[2].y
  /\ MarkupLines[1].y1 > MarkupLines[2].y1
  /\ seqRec.messages[1].text # seqRec.messages[2].text

(***************************************************************************)
(* Properties of isSupportedWikiUrl                                        *)
(***************************************************************************)
\* the argument is a non-empty string that parses as a URL of a DeepWiki
\* host, or of app.devin.ai with a path that is /wiki or below it
IsWikiAddress(url) ==
  /\ url.type = "string"
  /\ url.chars # <<>>
  /\ ParseUrl(url.chars).ok
  /\ LET host == ParseUrl(url.chars).hostname
         path == ParseUrl(url.chars).pathname
     IN  \/ host \in {"deepwiki.com", "www.deepwiki.com"}
         \/ /\ host = "app.devin.ai"
            /\ \/ path = <<"/", "wiki">>
               \/ Len(path) >= 3 /\ SubSeq(path, 1, 3) = <<"/", "wiki", "/">>

\* C16: isSupportedWikiUrl(url) never throws, and returns true exactly when
\* url is a non-empty string that parses as a URL whose hostname is
\* deepwiki.com or www.deepwiki.com, or app.devin.ai with a path that is /wiki
\* or starts with /wiki/; it returns false for every other host, path,
\* unparsable string, null, undefined or empty input.
C16_SupportedExactlyForWikiHosts ==
  /\ urlCheck.pc # "threw"
  /\ urlCheck.pc = "returned" => (urlCheck.result <=> IsWikiAddress(urlCheck.url))

\* the call returned false for an app.devin.ai address whose path only
\* begins with the letters of /wiki
C16_Witness ==
  /\ urlCheck.pc = "returned"
  /\ ~urlCheck.result
  /\ urlCheck.url = JsString(<<"https:", "//", "app.devin.ai", "/", "wiki", "x">>)

(***************************************************************************)
(* Properties of the table output                                          *)
(***************************************************************************)
\* the rows below the children of the table with the given tag, in order
RECURSIVE RowsUnder(_, _)
RowsUnder(kids, tag) ==
  IF kids = <<>> THEN <<>>
  ELSE (IF Head(kids).tag = tag THEN Head(kids).kids ELSE <<>>) \o RowsUnder(Tail(kids), tag)

\* the rows of the header section; the rows of the bodies or, in a table
\* without body sections, the rows that are children of the table
SectionHeadRows(t) == RowsUnder(t.kids, "THEAD")
PlainRows(t) == RowsUnder(t.kids, "TBODY") \o SelectSeq(t.kids, LAMBDA k : k.tag = "TR")

\* "| a | b |" for the cells of a row, "| --- | --- |" for as many cells
RECURSIVE CellsLine(_)
CellsLine(cells) ==
  IF cells = <<>> THEN <<>>
  ELSE <<" ">> \o Head(cells).kids[1].text \o <<" ", "|">> \o CellsLine(Tail(cells))
RowLine(row) == <<"|">> \o CellsLine(row.kids) \o <<"\n">>
RECURSIVE Dashes(_)
Dashes(k) == IF k = 0 THEN <<>> ELSE <<" ", "---", " ", "|">> \o Dashes(k - 1)
RECURSIVE RowLines(_)
RowLines(rows) == IF rows = <<>> THEN <<>> ELSE RowLine(Head(rows)) \o RowLines(Tail(rows))

\* the header row and the body rows of a table that has a row
HeaderRowOf(t) ==
  IF SectionHeadRows(t) # <<>> THEN SectionHeadRows(t)[1] ELSE PlainRows(t)[1]
BodyRowsOf(t) ==
  IF SectionHeadRows(t) # <<>> THEN PlainRows(t) ELSE Tail(PlainRows(t))

ExpectedTable(t) ==
  IF SectionHeadRows(t) \o PlainRows(t) = <<>> THEN <<>>
  ELSE RowLine(HeaderRowOf(t)) \o <<"|">> \o Dashes(Len(HeaderRowOf(t).kids)) \o <<"\n">> \o
       RowLines(BodyRowsOf(t)) \o <<"\n">>

NameAgeMarkdown ==
  <<"|", " ", "Name", " ", "|", " ", "Age", " ", "|", "\n",
    "|", " ", "---", " ", "|", " ", "---", " ", "|", "\n",
    "|", " ", "Alice", " ", "|", " ", "30", " ", "|", "\n">>

RangeAnchor == <<"#", "L", "10", "-", "L", "20">>
LineAnchor == <<"#", "L", "10">>
SameLineAnchor == <<"#", "L", "10", "-", "L", "10">>

RepoFile == <<"https://", "github.com", "/", "o", "/", "file.go">>
RootedFile == <<"/", "o", "/", "src", "/", "file.go">>

\* the destinations: relative, absolute, rooted, a fragment alone, without an
\* anchor, and none
LinkHrefs ==
  { <<"file.go">> \o RangeAnchor, <<"src", "/", "file.go">> \o LineAnchor,
    RepoFile \o RangeAnchor, RepoFile \o LineAnchor, RepoFile \o SameLineAnchor,
    RootedFile \o RangeAnchor, LineAnchor, RepoFile, <<>> }

SourcesText == SourcesOpen \o <<"file.go", ":", "10", "]">>
LinkTexts ==
  { SourcesText, <<"file.go", ":", "10">>, <<"src", "/", "file.go", ":", "10">>,
    <<"see", " ", "code">>, SourcesOpen \o <<"main.go", ":", "10", "]">>, <<>> }

Link(href, text, display) ==
  [Node("A", <<>>, IF text = <<>> THEN <<>> ELSE <<TextNode(text)>>, display, {},
        "none", "none", <<>>) EXCEPT !.href = href]

LinkNodes == { Link(h, t, d) : h \in LinkHrefs, t \in LinkTexts, d \in {"inline", "block"} }

\* a link at the top of the content, or inside a paragraph
LinkInit ==
  /\ FlowIdle /\ BatchIdle /\ PagesIdle /\ DiagramsIdle /\ UrlIdle /\ StateIdle /\ PopupIdle
  /\ dom \in { <<l>> : l \in LinkNodes }
        \cup { <<Node("P", <<>>, <<l>>, "block", {}, "none", "none", <<>>)>> : l \in LinkNodes }
  /\ responses = <<>>

SpecLink == LinkInit /\ [][ConvNext]_vars

(***************************************************************************)
(* The popup-driven batch flow (popup.js 255-422)                          *)
(***************************************************************************)
\* popup.js 298-302: the finally of the click handler
Finally(p) == [p EXCEPT !.cancelShown = FALSE, !.batchDisabled = FALSE]

\* the handler of run r is inside processAllPages
LoopPcs == {"getTab", "nav", "convert", "fallback", "returnCancelled", "returnEnd"}

\* popup.js 355, 370: if (isCancelled)
StopRequested(p) == p.isCancelled

\* popup.js 353-366: the head of the for loop, up to the next await
LoopHead(p, rn) ==
  IF rn.idx > rn.n THEN [rn EXCEPT !.pc = "returnEnd"]
  ELSE IF StopRequested(p) THEN [rn EXCEPT !.pc = "returnCancelled"]
  ELSE [rn EXCEPT !.pc = "nav"]

\* popup.js 255-257: a click on the enabled batch button starts a handler
BatchClick(r) ==
  /\ ~popup.batchDisabled
  /\ run[r].pc = "idle"
  /\ \A k \in RunIds : k < r => run[k].pc # "idle"
  /\ run' = [run EXCEPT ![r].pc = "query"]
  /\ UNCHANGED popup

\* popup.js 257-270: chrome.tabs.query answers
QueryReply(r, supported) ==
  /\ run[r].pc = "query"
  /\ IF supported
     THEN /\ popup' = [popup EXCEPT !.isCancelled = FALSE, !.cancelShown = TRUE,
                                    !.batchDisabled = TRUE]
          /\ run' = [run EXCEPT ![r].pc = "extract"]
     ELSE /\ popup' = Finally(popup)
          /\ run' = [run EXCEPT ![r].pc = "done"]

\* popup.js 273-288, 315-347: extractAllPages answers with n pages
ExtractAnswer(r, n) ==
  /\ run[r].pc = "extract"
  /\ popup' = [popup EXCEPT !.allPages = [by |-> r, n |-> n], !.convertedPages = <<>>]
  /\ run' = [run EXCEPT ![r].pc = "getTab"]

\* popup.js 273-275, 294-302: extractAllPages fails
ExtractRefused(r) ==
  /\ run[r].pc = "extract"
  /\ popup' = Finally(popup)
  /\ run' = [run EXCEPT ![r].pc = "done"]

\* popup.js 346-366: chrome.tabs.get settles, the loop over allPages starts
PopupGetTabReply(r) ==
  /\ run[r].pc = "getTab"
  /\ run' = [run EXCEPT ![r] = LoopHead(popup, [@ EXCEPT !.list = popup.allPages.by,
                                                       !.n = popup.allPages.n, !.idx = 1])]
  /\ UNCHANGED popup

\* popup.js 366-377, 402-408: ensureTabAtUrl returns the tab or throws
NavReply(r, ok) ==
  /\ run[r].pc = "nav"
  /\ run' = [run EXCEPT ![r] =
               IF ~ok THEN [@ EXCEPT !.errorCount = @ + 1, !.pc = "fallback"]
               ELSE IF StopRequested(popup) THEN [@ EXCEPT !.pc = "returnCancelled"]
               ELSE [@ EXCEPT !.pc = "convert"]]
  /\ UNCHANGED popup

\* popup.js 377-408: convertToMarkdown is answered, or the message fails
PopupConvertReply(r, outcome) ==
  /\ run[r].pc = "convert"
  /\ IF outcome = "success"
     THEN /\ popup' = [popup EXCEPT !.convertedPages =
                         Append(@, [by |-> r, list |-> run[r].list, page |-> run[r].idx,
                                    afterCancel |-> run[r].cancelClicked])]
          /\ run' = [run EXCEPT ![r] =
                       LoopHead(popup, [@ EXCEPT !.processedCount = @ + 1, !.idx = @ + 1])]
     ELSE IF outcome = "failure"
     THEN /\ run' = [run EXCEPT ![r] =
                       LoopHead(popup, [@ EXCEPT !.errorCount = @ + 1, !.idx = @ + 1])]
          /\ UNCHANGED popup
     ELSE /\ run' = [run EXCEPT ![r] = [@ EXCEPT !.errorCount = @ + 1, !.pc = "fallback"]]
          /\ UNCHANGED popup

\* popup.js 407-414, 353: chrome.tabs.get of the catch settles, next page
PopupFallbackReply(r) ==
  /\ run[r].pc = "fallback"
  /\ run' = [run EXCEPT ![r] = LoopHead(popup, [@ EXCEPT !.idx = @ + 1])]
  /\ UNCHANGED popup

\* popup.js 358-359, 372-373, 417-421, then 290-302 and 427-475:
\* safelyReturnToUrl settles, processAllPages returns, the ZIP is built
ReturnReply(r) ==
  /\ run[r].pc \in {"returnCancelled", "returnEnd"}
  /\ IF ~popup.isCancelled /\ popup.convertedPages # <<>>
     THEN /\ run' = [run EXCEPT ![r] = [@ EXCEPT !.zipped = popup.convertedPages, !.pc = "zip"]]
          /\ UNCHANGED popup
     ELSE /\ run' = [run EXCEPT ![r].pc = "done"]
          /\ popup' = Finally(popup)

\* popup.js 475-498, 298-302: generateAsync settles, the download is started
ZipReply(r) ==
  /\ run[r].pc = "zip"
  /\ run' = [run EXCEPT ![r].pc = "done"]
  /\ popup' = Finally(popup)

\* popup.js 307-312: a click on the shown cancel button
CancelClick ==
  /\ popup.cancelShown
  /\ popup' = [popup EXCEPT !.isCancelled = TRUE, !.cancelShown = FALSE, !.batchDisabled = FALSE]
  /\ run' = [r \in RunIds |-> IF run[r].pc \in LoopPcs THEN [run[r] EXCEPT !.cancelClicked = TRUE]
                              ELSE run[r]]

PopupInit ==
  /\ FlowIdle /\ BatchIdle /\ PagesIdle /\ ConvIdle /\ DiagramsIdle /\ UrlIdle /\ StateIdle
  /\ popup = PopupLoaded
  /\ run = [r \in RunIds |-> IdleRun]

PopupNext ==
  \/ \E r \in RunIds : BatchClick(r) /\ UNCHANGED notPopupVars
  \/ \E r \in RunIds : \E supported \in BOOLEAN : QueryReply(r, supported) /\ UNCHANGED notPopupVars
  \/ \E r \in RunIds : \E n \in 1..MaxPopupPages : ExtractAnswer(r, n) /\ UNCHANGED notPopupVars
  \/ \E r \in RunIds : ExtractRefused(r) /\ UNCHANGED notPopupVars
  \/ \E r \in RunIds : PopupGetTabReply(r) /\ UNCHANGED notPopupVars
  \/ \E r \in RunIds : \E ok \in BOOLEAN : NavReply(r, ok) /\ UNCHANGED notPopupVars
  \/ \E r \in RunIds : \E outcome \in {"success", "failure", "throw"} :
       PopupConvertReply(r, outcome) /\ UNCHANGED notPopupVars
  \/ \E r \in RunIds : PopupFallbackReply(r) /\ UNCHANGED notPopupVars
  \/ \E r \in RunIds : ReturnReply(r) /\ UNCHANGED notPopupVars
  \/ \E r \in RunIds : ZipReply(r) /\ UNCHANGED notPopupVars
  \/ CancelClick /\ UNCHANGED notPopupVars

SpecPopup == PopupInit /\ [][PopupNext]_vars

(***************************************************************************)
(* Properties of the line-anchor links                                     *)
(***************************************************************************)
\* the text of a link
LinkText(link) == IF link.kids = <<>> THEN <<>> ELSE link.kids[1].text

EndsInLineAnchor(href) ==
  \E a \in LineNumbers :
    \/ EndsWith(href, <<"#", "L", a>>)
    \/ \E b \in LineNumbers : EndsWith(href, <<"#", "L", a, "-", "L", b>>)

\* "L<a>-L<b>", or "L<a>" when b is absent or equal to a
AnchorText(href) ==
  LET a == CHOOSE a \in LineNumbers :
             \/ EndsWith(href, <<"#", "L", a>>)
             \/ \E b \in LineNumbers : EndsWith(href, <<"#", "L", a, "-", "L", b>>)
  IN  IF EndsWith(href, <<"#", "L", a>>) \/ EndsWith(href, <<"#", "L", a, "-", "L", a>>)
      THEN <<"L", a>>
      ELSE <<"L", a, "-", "L", href[Len(href)]>>

\* the names a display text may give the file: a run of atoms of the
\* destination before its anchor, or "link" when there is none
FileNames(href) ==
  LET path == Before(href, {"#"})
  IN  IF path = <<>> THEN { <<"link">> }
      ELSE { SubSeq(path, i, j) : i \in 1..Len(path), j \in 1..Len(path) } \ { <<>> }

Wrapped(t) == StartsWith(t, SourcesOpen) /\ EndsWith(t, <<"]">>)

\* the Markdown link [display](href), with the blank line after a block
IsRewritten(md, link) ==
  \E name \in FileNames(link.href) :
    LET body == name \o <<" ">> \o AnchorText(link.href)
        display == IF Wrapped(LinkText(link)) THEN SourcesOpen \o body \o <<"]">> ELSE body
    IN  md \in { <<"[">> \o display \o <<"]", "(">> \o link.href \o <<")">> \o e :
                   e \in { <<>>, <<"\n", "\n">> } }

\* C18: a link whose destination ends in a line anchor #L<a> or #L<a>-L<b>
\* is written as a link to the unchanged destination whose display text is
\* "<filename> L<a>-L<b>" ("<filename> L<a>" when b is absent or equal to a),
\* inside "Sources: [...]" exactly when the original text had that wrapper;
\* the link to file.go#L10-L20 with the text "Sources: [file.go:10]" is
\* displayed as "Sources: [file.go L10-L20]".
C18_LineAnchorLinkRewritten ==
  \A i \in 1..Len(responses) :
    (dom[1].tag = "A" /\ EndsInLineAnchor(dom[1].href)) =>
      IsRewritten(responses[i].parts[1].md, dom[1])

\* the same for the destinations that begin with a scheme, "/" or "#"
C18_HoldsForAbsoluteDestinations ==
  \A i \in 1..Len(responses) :
    (dom[1].tag = "A" /\ EndsInLineAnchor(dom[1].href)
       /\ dom[1].href[1] \in LinkedHrefStarts) =>
      IsRewritten(responses[i].parts[1].md, dom[1])

(***************************************************************************)
(* Properties of the state transitions                                     *)
(***************************************************************************)
\* C22 as stated: no emitted transition has its source equal to its target:
\* no line of the form X --> X is emitted.
C22_AsStated ==
  /\ \A k \in 1..Len(stateRec.transitions) :
       stateRec.transitions[k].from # stateRec.transitions[k].to
  /\ \A nm \in {<<"A">>, <<"B">>, <<"[*]">>} :
       ~Includes(stateRec.result, nm \o <<" --> ">> \o nm)

\* C22: no emitted transition starts and ends at the same recovered box; a
\* line X --> X is emitted only for a path between two different boxes that
\* carry the same name (two states of one name, or the start and the end
\* pseudostate, both written [*]).
C22_NoTransitionFromABoxToItself ==
  \A k \in 1..Len(stateRec.transitions) :
    LET t == stateRec.transitions[k]
    IN  /\ t.source # t.target
        /\ t.from = stateRec.nodes[t.source].name
        /\ t.to = stateRec.nodes[t.target].name
        /\ \E p \in Range(stateSvg.paths) :
             /\ GetDistanceToBox(p.startX, p.startY, stateRec.nodes[t.source]) < TouchDistance
             /\ GetDistanceToBox(p.endX, p.endY, stateRec.nodes[t.target]) < TouchDistance

\* a path that leaves and enters the left box was read and gave no
\* transition, though the diagram has a second state
C22_Witness ==
  /\ stateRec.pc = "done"
  /\ Len(stateRec.nodes) = 2
  /\ stateRec.nodes[1].name # stateRec.nodes[2].name
  /\ stateSvg.paths = <<[startX |-> 10, startY |-> 5, endX |-> 10, endY |-> 5]>>
  /\ stateRec.transitions = <<>>

(***************************************************************************)
(* Properties of the recovered notes                                       *)
(***************************************************************************)
\* C23: no two notes of the note list have the same text and positions
\* within 10 of each other in x and in y, however deep the note's box and
\* text lie in groups and whichever method found it: every drawn note gives
\* one note line.
C23_NotesDeduplicated ==
  \A i \in 1..Len(classRec.notes) : \A j \in 1..Len(classRec.notes) :
    i < j =>
      ~(/\ classRec.notes[i].text = classRec.notes[j].text
        /\ Abs(classRec.notes[i].x - classRec.notes[j].x) < 10
        /\ Abs(classRec.notes[i].y - classRec.notes[j].y) < 10)

(***************************************************************************)
(* Properties of the batch job                                             *)
(***************************************************************************)
\* the convertToMarkdown requests job j sent after its cancel was answered
SentAfterCancel(j) == { i \in 1..Len(job[j].sends) : job[j].sends[i].afterCancel }

\* C3 as stated: once the cancel of a registered job has been answered, the
\* job sends no further convertToMarkdown request and starts no ZIP download.
C3_AsStated ==
  \A j \in JobIds : SentAfterCancel(j) = {} /\ job[j].downloadsAfterCancel = 0

\* C3: once the cancel of a registered job has been answered, the job starts
\* no ZIP download and sends no convertToMarkdown request for a further page:
\* the only request it can still send is the re-send, after the content script
\* was injected, of the request it sent last before the cancel was answered.
C3_NoNewPageAndNoDownloadAfterCancel ==
  \A j \in JobIds :
    /\ job[j].downloadsAfterCancel = 0
    /\ \A i \in SentAfterCancel(j) :
         /\ job[j].sends[i].resend
         /\ i > 1
         /\ job[j].sends[i - 1].page = job[j].sends[i].page
         /\ ~job[j].sends[i - 1].resend
         /\ ~job[j].sends[i - 1].afterCancel

\* a cancelled job that re-sent a request after the cancel has finished, and
\* pages of its list were left unconverted
C3_Witness ==
  \E j \in JobIds :
    /\ job[j].pc = "done" /\ job[j].cancelAcked
    /\ SentAfterCancel(j) # {}
    /\ Len(job[j].attempts) < Len(job[j].allPages)

\* the pages job j sent a convertToMarkdown request for
SentPages(j) == { job[j].sends[i].page : i \in 1..Len(job[j].sends) }

\* C4: a convertToMarkdown request for a page is sent only after the tab was
\* seen at that page's normalized URL and a ping was answered ready; a page
\* whose readiness wait timed out gets no request, is counted as failed and
\* is not stored.
C4_ConvertOnlyAfterReady ==
  \A j \in JobIds :
    /\ SentPages(j) \subseteq job[j].readySeen
    /\ job[j].timedOut \cap SentPages(j) = {}
    /\ job[j].errorCount >= Cardinality(job[j].timedOut)
    /\ \A k \in job[j].timedOut :
         \A i \in 1..Len(job[j].convertedPages) :
           job[j].convertedPages[i].sourceUrl # job[j].allPages[k].url

\* one page of a finished job timed out and another one was converted
C4_Witness ==
  \E j \in JobIds :
    /\ job[j].pc = "done"
    /\ job[j].timedOut # {}
    /\ job[j].sends # <<>>
    /\ job[j].convertedPages # <<>>

StrictlyIncreasing(q) == \A a, b \in 1..Len(q) : a < b => q[a] < q[b]

\* the position in the page list of the i-th stored page
ListIndexOf(jb, i) ==
  CHOOSE k \in 1..Len(jb.allPages) : jb.allPages[k].url = jb.convertedPages[i].sourceUrl

\* the job is navigating to a page of the list, waiting for it or converting it
OnAPage(jb) ==
  /\ jb.pc \in {"nav_update", "poll_get", "poll_ping", "convert1", "inject", "convert2"}
  /\ jb.phase = "page"

\* C5: the pages are handled one at a time in list order: a page is being
\* handled only when every page before it has been counted as converted or
\* failed, each page is attempted at most once, and the stored pages are a
\* subsequence of the page list.
C5_PagesInOrderOneAtATime ==
  \A j \in JobIds :
    LET jb == job[j] IN
    /\ StrictlyIncreasing(jb.attempts)
    /\ \A i \in 1..Len(jb.attempts) : jb.attempts[i] \in 1..Len(jb.allPages)
    /\ OnAPage(jb) =>
         /\ jb.attempts # <<>> /\ jb.attempts[Len(jb.attempts)] = jb.idx
         /\ jb.processedCount + jb.errorCount = jb.idx - 1
    /\ \A i \in 1..Len(jb.convertedPages) :
         \E k \in 1..Len(jb.allPages) : jb.allPages[k].url = jb.convertedPages[i].sourceUrl
    /\ StrictlyIncreasing([i \in 1..Len(jb.convertedPages) |-> ListIndexOf(jb, i)])
    /\ \A i \in 1..Len(jb.convertedPages) : ListIndexOf(jb, i) \in
         { jb.attempts[a] : a \in 1..Len(jb.attempts) }

\* a job is on the last page of a list of several pages, after one page was
\* stored and one had failed or the first had
C5_Witness ==
  \E j \in JobIds :
    /\ OnAPage(job[j])
    /\ job[j].idx = Len(job[j].allPages) /\ job[j].idx > 1
    /\ job[j].convertedPages # <<>>

\* C24: a job whose cancelBatchConversion was answered success:true never
\* sends the success update 'ZIP file successfully generated', and unless an
\* error ended it, its final update is the cancelled one: cancelled:true,
\* completed:true, 'Operation cancelled'.
C24_AcceptedCancelEndsCancelled ==
  \A j \in JobIds :
    job[j].cancelAcked =>
      /\ job[j].lastUpdate.message # "zipSuccess"
      /\ job[j].pc = "done" /\ job[j].lastUpdate.message # "failed" =>
           /\ job[j].lastUpdate.message = "cancelled"
           /\ job[j].lastUpdate.cancelled
           /\ job[j].lastUpdate.completed

\* background.js 446-449: tabs.onRemoved has marked job j cancelled and
\* completed, and the job's own code has not come to its end yet
StoppedByTabClose(j) ==
  job[j].cancelled /\ job[j].completed /\ job[j].pc \notin {"idle", "done", "collected"}

\* C25: after the tab of a running job was closed, the 'Tab closed' update is
\* the last update of the job: no further update is sent, no further page is
\* attempted and no ZIP download is started.
C25_NothingAfterTabClosed ==
  [][\A j \in JobIds :
       StoppedByTabClose(j) =>
         /\ job'[j].lastUpdate = job[j].lastUpdate
         /\ job'[j].attempts = job[j].attempts
         /\ job'[j].downloads = job[j].downloads]_vars

\* C26: at most one job runs on the tab at any time, and the registry entry
\* of the tab is removed only by the job it holds coming to its end, or by
\* the tab being closed, on behalf of that job.
C26_OneJobPerTab ==
  [][/\ Cardinality({ j \in DOMAIN job : Running(j) }) <= 1
     /\ batchJobs # NoJob /\ batchJobs' # batchJobs =>
          \/ job'[batchJobs].pc = "done"
          \/ tab.open /\ ~tab'.open]_vars

\* background.js 109-170, 397-401: job j has come to its end
Terminated(j) ==
  /\ job[j].pc = "done"
  /\ job[j].completed
  /\ job[j].lastUpdate.completed /\ ~job[j].lastUpdate.running
  /\ batchJobs = NoJob

\* C27: provided every await of a job settles and the readiness wait times
\* out, every started job ends: it is completed, its last update carries
\* completed:true and running:false, and the registry holds no job for its tab.
C27_EveryStartedJobTerminates ==
  \A j \in JobIds : Running(j) ~> Terminated(j)

\* jobs have ended on the success path, with nothing converted, cancelled, and
\* on an error: here one that was cancelled after a page had been stored
C27_Witness ==
  \E j \in JobIds :
    /\ Terminated(j)
    /\ job[j].lastUpdate.message = "cancelled"
    /\ job[j].processedCount > 0
    /\ job[j].timedOut # {}

\* background.js 185-258: the page loop of the job has ended and no cancel
\* had been requested: the job is on its way back to the start page, or it
\* has sent 'Batch conversion complete!' (251-258) or a later update
LoopEndedWithoutCancel(jb) ==
  \/ jb.phase = "return" /\ ~jb.cancelRequested
  \/ jb.pc \in {"compress", "download"}
  \/ jb.lastUpdate.message \in {"complete", "creatingZip", "compressing", "noPages", "zipSuccess"}

\* the counters of a job record agree with its pages
CountersAgree(jb) ==
  /\ jb.processedCount = Len(jb.convertedPages)
  /\ jb.total = Len(jb.allPages)
  /\ jb.processedCount + jb.errorCount <= jb.total
  /\ LoopEndedWithoutCancel(jb) => jb.processedCount + jb.errorCount = jb.total

\* C28: throughout a job processedCount is the number of stored pages,
\* processedCount + errorCount is at most total, neither counter decreases,
\* and when the page loop has ended without a cancel request
\* processedCount + errorCount = total.
C28_CountersConsistent ==
  [][\A j \in JobIds :
       /\ CountersAgree(job[j]) /\ CountersAgree(job'[j])
       /\ job'[j].pc # "collected" =>
            /\ job'[j].processedCount >= job[j].processedCount
            /\ job'[j].errorCount >= job[j].errorCount]_vars

\* the loop of a job has ended without a cancel, one page stored, one failed,
\* and the ZIP is being compressed
C28_Witness ==
  \E j \in JobIds :
    /\ job[j].pc = "compress" /\ ~job[j].cancelRequested
    /\ job[j].processedCount = 1 /\ job[j].errorCount = 1 /\ job[j].total = 1 + 1

\* background.js 116, 174: the page that was current when the job started:
\* the page of the list marked selected, else the url the tab had at line 116
StartPage(jb) ==
  LET sel == { i \in 1..Len(jb.allPages) : jb.allPages[i].selected }
  IN  IF sel # {} THEN jb.allPages[CHOOSE i \in sel : \A k \in sel : i <= k].url
      ELSE jb.startUrl

\* the page loop of the job is over: the job is on its way back, or it is
\* building the ZIP, or it has sent a final status that follows the loop
LoopOver(jb) ==
  \/ jb.phase = "return"
  \/ jb.pc \in {"compress", "download"}
  \/ jb.pc = "done" /\ jb.lastUpdate.message \in {"cancelled", "noPages", "zipSuccess"}
  \/ jb.pc = "done" /\ jb.downloads > 0

\* C30: a job goes back to its start page exactly once, after its page loop
\* and before its final status: one call of safelyReturnToUrl, whose target is
\* the page marked selected, else the tab's url at job start, and which starts
\* at most one navigation, to that page; when going back fails the job goes
\* on to its final status, which is 'failed' only if the download failed.
C30_ReturnsOnceToStartPage ==
  \A j \in JobIds :
    LET jb == job[j] IN
    /\ Len(jb.returns) <= 1
    /\ Len(jb.returnNavs) <= Len(jb.returns)
    /\ \A i \in 1..Len(jb.returns) : jb.returns[i] = StartPage(jb)
    /\ \A i \in 1..Len(jb.returnNavs) : jb.returnNavs[i] = StartPage(jb)
    /\ OnAPage(jb) => jb.returns = <<>>
    /\ LoopOver(jb) => Len(jb.returns) = 1
    /\ jb.returnFailed =>
         /\ jb.pc \in {"compress", "download", "done"}
         /\ jb.lastUpdate.message = "failed" => jb.downloads > 0

\* a job navigated back to its start page, the wait for it failed, and the
\* job has reported the ZIP
C30_Witness ==
  \E j \in JobIds :
    /\ job[j].pc = "done"
    /\ job[j].returnNavs # <<>> /\ job[j].returnFailed
    /\ job[j].lastUpdate.message = "zipSuccess"

\* C29: once Cancel was clicked while a page-processing loop of the popup
\* runs, that loop stays cancelled until it stops: a later click on the batch
\* button does not clear the flag under it, no other loop runs beside it, and
\* it stores no further page.
C29_CancelledLoopStops ==
  /\ \A r \in RunIds :
       run[r].cancelClicked /\ run[r].pc \in LoopPcs =>
         /\ popup.isCancelled
         /\ \A k \in RunIds : k # r => run[k].pc \notin LoopPcs
  /\ \A i \in 1..Len(popup.convertedPages) : ~popup.convertedPages[i].afterCancel

====
